---- MODULE Spec2Model ----
(***************************************************************************)
(* curl-parser: CurlParser.Parse turns the text of a curl command into an  *)
(* HTTPRequest record.  Text is a sequence of one-character strings; every *)
(* regular expression of parser.go is written as a syntax tree and matched *)
(* by a backtracking matcher with Go's leftmost-first preference.          *)
(***************************************************************************)
EXTENDS Naturals, Sequences, FiniteSets, TLC

VARIABLES args, curlCommand, req, err, pc, parsers, calls, heap

vars == <<args, curlCommand, req, err, pc, parsers, calls, heap>>

(***************************************************************************)
(* Characters and character classes (regexp/syntax: \s, \w, \d, .)         *)
(***************************************************************************)
SQ == "'"
DQ == "\""
BSL == "\\"
NL == "\n"

SpaceChars == {" ", "\t", "\n", "\f", "\r"}
DigitChars == {"0", "1", "2", "3", "4", "5", "6", "7", "8", "9"}
LowerSeq == <<"a", "b", "c", "d", "e", "f", "g", "h", "i", "j", "k", "l", "m",
              "n", "o", "p", "q", "r", "s", "t", "u", "v", "w", "x", "y", "z">>
UpperSeq == <<"A", "B", "C", "D", "E", "F", "G", "H", "I", "J", "K", "L", "M",
              "N", "O", "P", "Q", "R", "S", "T", "U", "V", "W", "X", "Y", "Z">>
LowerChars == {LowerSeq[i] : i \in 1..26}
UpperChars == {UpperSeq[i] : i \in 1..26}
WordChars == LowerChars \cup UpperChars \cup DigitChars \cup {"_"}

(***************************************************************************)
(* strings.ToUpper, strings.TrimSpace, strings.Contains, strings.HasPrefix *)
(***************************************************************************)
UpperOf(c) ==
  IF c \in LowerChars
    THEN UpperSeq[CHOOSE i \in 1..26 : LowerSeq[i] = c]
    ELSE c

ToUpper(s) == [i \in 1..Len(s) |-> UpperOf(s[i])]

HasPrefixAt(s, p, i) ==
  /\ i + Len(p) - 1 <= Len(s)
  /\ \A j \in 1..Len(p) : s[i + j - 1] = p[j]

HasPrefix(s, p) == HasPrefixAt(s, p, 1)

Contains(s, p) == \E i \in 1..(Len(s) + 1) : HasPrefixAt(s, p, i)

RECURSIVE TrimLeft(_)
TrimLeft(s) ==
  IF s # <<>> /\ Head(s) \in SpaceChars THEN TrimLeft(Tail(s)) ELSE s

RECURSIVE TrimRight(_)
TrimRight(s) ==
  IF s # <<>> /\ s[Len(s)] \in SpaceChars
    THEN TrimRight(SubSeq(s, 1, Len(s) - 1))
    ELSE s

TrimSpace(s) == TrimRight(TrimLeft(s))

\* index of the first occurrence of character c in s, 0 when there is none
RECURSIVE IndexFrom(_, _, _)
IndexFrom(s, c, i) ==
  IF i > Len(s) THEN 0
  ELSE IF s[i] = c THEN i
  ELSE IndexFrom(s, c, i + 1)

Index(s, c) == IndexFrom(s, c, 1)

(***************************************************************************)
(* Regular expressions: syntax trees                                       *)
(***************************************************************************)
Inf == 1000000

Lit(s) == [t |-> "lit", s |-> s]
Cls(S) == [t |-> "cls", neg |-> FALSE, set |-> S]
NCls(S) == [t |-> "cls", neg |-> TRUE, set |-> S]
Cat(xs) == [t |-> "cat", xs |-> xs]
Alt(xs) == [t |-> "alt", xs |-> xs]
Rep(x, lo, hi, greedy) ==
  [t |-> "rep", x |-> x, lo |-> lo, hi |-> hi, greedy |-> greedy, n |-> 0, from |-> 0]
Star(x) == Rep(x, 0, Inf, TRUE)
Plus(x) == Rep(x, 1, Inf, TRUE)
Opt(x) == Rep(x, 0, 1, TRUE)
LazyStar(x) == Rep(x, 0, Inf, FALSE)
Grp(n, x) == [t |-> "grp", n |-> n, x |-> x]
EndText == [t |-> "eot"]
Empty == Cat(<<>>)

\* \s  \w  \d  .  (without the s flag . does not match a newline)
ReSpace == Cls(SpaceChars)
ReWord == Cls(WordChars)
ReDigit == Cls(DigitChars)
ReAny == NCls({NL})

(***************************************************************************)
(* Regular expressions: matching.  Run(k, s, st) matches the sequence of   *)
(* nodes k against s from position st.pos and returns the final state of   *)
(* the first successful path in preference order (alternatives left to     *)
(* right, greedy repetition longest first, lazy repetition shortest        *)
(* first), or Fail.                                                        *)
(***************************************************************************)
MaxGroups == 3
NoCaps == [g \in 1..MaxGroups |-> <<>>]
Fail == [pos |-> 0, caps |-> NoCaps]

InClass(x, c) == (c \in x.set) # x.neg

\* the number of consecutive characters of class x in s from position i
RECURSIVE ClassRun(_, _, _)
ClassRun(s, x, i) ==
  IF i <= Len(s) /\ InClass(x, s[i]) THEN 1 + ClassRun(s, x, i + 1) ELSE 0

RECURSIVE Run(_, _, _)
RECURSIVE RunAlt(_, _, _, _, _)
RECURSIVE RunGreedy(_, _, _, _, _)
RECURSIVE RunLazy(_, _, _, _, _)

Run(k, s, st) ==
  IF k = <<>> THEN st
  ELSE
    LET x == Head(k)
        rest == Tail(k)
    IN CASE x.t = "lit" ->
              IF HasPrefixAt(s, x.s, st.pos)
                THEN Run(rest, s, [st EXCEPT !.pos = @ + Len(x.s)])
                ELSE Fail
         [] x.t = "cls" ->
              IF st.pos <= Len(s) /\ InClass(x, s[st.pos])
                THEN Run(rest, s, [st EXCEPT !.pos = @ + 1])
                ELSE Fail
         [] x.t = "eot" ->
              IF st.pos = Len(s) + 1 THEN Run(rest, s, st) ELSE Fail
         [] x.t = "cat" -> Run(x.xs \o rest, s, st)
         [] x.t = "alt" -> RunAlt(x.xs, 1, rest, s, st)
         [] x.t = "grp" ->
              Run(<<x.x, [t |-> "end", n |-> x.n, start |-> st.pos]>> \o rest, s, st)
         [] x.t = "end" ->
              Run(rest, s, [st EXCEPT !.caps[x.n] = <<x.start, st.pos>>])
         [] x.t = "rep" /\ x.x.t = "cls" ->
              \* a repeated character class: the candidate counts in preference order
              IF x.greedy
                THEN LET n == ClassRun(s, x.x, st.pos)
                         top == IF n < x.hi THEN n ELSE x.hi
                     IN IF top < x.lo THEN Fail ELSE RunGreedy(x, top, rest, s, st)
                ELSE IF ClassRun(s, x.x, st.pos) < x.lo THEN Fail
                     ELSE RunLazy(x, x.lo, rest, s, st)
         [] x.t = "rep" /\ x.x.t # "cls" ->
              IF x.n > 0 /\ x.from = st.pos THEN Fail   \* an empty iteration
              ELSE
                LET more == IF x.n < x.hi
                              THEN Run(<<x.x, [x EXCEPT !.n = @ + 1, !.from = st.pos]>>
                                         \o rest, s, st)
                              ELSE Fail
                    stop == IF x.n >= x.lo THEN Run(rest, s, st) ELSE Fail
                IN IF x.greedy
                     THEN (IF more.pos # 0 THEN more ELSE stop)
                     ELSE (IF stop.pos # 0 THEN stop ELSE more)

RunAlt(xs, i, rest, s, st) ==
  IF i > Len(xs) THEN Fail
  ELSE LET r == Run(<<xs[i]>> \o rest, s, st)
       IN IF r.pos # 0 THEN r ELSE RunAlt(xs, i + 1, rest, s, st)

\* x{lo,hi} of a character class, greedy: n characters, else n - 1, ... down to lo
RunGreedy(x, n, rest, s, st) ==
  LET r == Run(rest, s, [st EXCEPT !.pos = @ + n])
  IN IF r.pos # 0 THEN r
     ELSE IF n = x.lo THEN Fail
     ELSE RunGreedy(x, n - 1, rest, s, st)

\* x{lo,hi}? of a character class, lazy: n characters, else n + 1, ...
RunLazy(x, n, rest, s, st) ==
  LET r == Run(rest, s, [st EXCEPT !.pos = @ + n])
  IN IF r.pos # 0 THEN r
     ELSE IF n < x.hi /\ st.pos + n <= Len(s) /\ InClass(x.x, s[st.pos + n])
       THEN RunLazy(x, n + 1, rest, s, st)
     ELSE Fail

NoMatch == [found |-> FALSE, start |-> 0, end |-> 0, caps |-> NoCaps]

MatchAt(re, s, i) == Run(<<re>>, s, [pos |-> i, caps |-> NoCaps])

\* the leftmost match of re in s that starts at position i or later
RECURSIVE FindFrom(_, _, _)

\* r is the run of re from position i: the match it made, else the search goes on
FoundOrNext(re, s, i, r) ==
  IF r.pos # 0 THEN [found |-> TRUE, start |-> i, end |-> r.pos, caps |-> r.caps]
  ELSE FindFrom(re, s, i + 1)

FindFrom(re, s, i) ==
  IF i > Len(s) + 1 THEN NoMatch
  ELSE FoundOrNext(re, s, i, MatchAt(re, s, i))

\* regexp.FindStringSubmatch: m.found is len(matches) > 0
FindStringSubmatch(re, s) == FindFrom(re, s, 1)

\* matches[n]: the text of group n, "" when the group did not take part
Submatch(m, s, n) ==
  IF m.caps[n] = <<>> THEN <<>>
  ELSE SubSeq(s, m.caps[n][1], m.caps[n][2] - 1)

\* regexp.FindAllStringSubmatch(s, -1): successive non-overlapping matches
RECURSIVE FindAllFrom(_, _, _)
FindAllFrom(re, s, i) ==
  LET m == FindFrom(re, s, i)
  IN IF ~m.found THEN <<>>
     ELSE <<m>> \o FindAllFrom(re, s, IF m.end > m.start THEN m.end ELSE m.end + 1)

FindAllStringSubmatch(re, s) == FindAllFrom(re, s, 1)

(***************************************************************************)
(* Text constants of parser.go                                             *)
(***************************************************************************)
S_curl == <<"c", "u", "r", "l", " ">>
S_http == <<"h", "t", "t", "p">>
S_css == <<":", "/", "/">>
S_X == <<"-", "X">>
S_request == <<"-", "-", "r", "e", "q", "u", "e", "s", "t">>
S_data == <<"-", "-", "d", "a", "t", "a">>
S_d == <<"-", "d">>
S_dataraw == <<"-", "-", "d", "a", "t", "a", "-", "r", "a", "w">>
S_form == <<"-", "-", "f", "o", "r", "m">>
S_F == <<"-", "F">>
S_H == <<"-", "H">>
S_header == <<"-", "-", "h", "e", "a", "d", "e", "r">>
S_referer == <<"-", "-", "r", "e", "f", "e", "r", "e", "r">>
S_proxy == <<"-", "-", "p", "r", "o", "x", "y">>
S_POST == <<"P", "O", "S", "T">>
S_connectTimeout == <<"-", "-", "c", "o", "n", "n", "e", "c", "t", "-", "t", "i", "m", "e", "o", "u", "t">>
S_GET == <<"G", "E", "T">>

(***************************************************************************)
(* The regular expressions of parser.go                                    *)
(***************************************************************************)
\* '([^']*)'   "([^"]*)"   as groups 1 and 2
ReSingleQuoted == Cat(<<Lit(<<SQ>>), Grp(1, Star(NCls({SQ}))), Lit(<<SQ>>)>>)
ReDoubleQuoted == Cat(<<Lit(<<DQ>>), Grp(2, Star(NCls({DQ}))), Lit(<<DQ>>)>>)

\* the address pattern with the optional "s" made mandatory
ReAddress_HttpsOnly ==
  Cat(<<Lit(S_http), Lit(<<"s">>), Lit(S_css),
        Plus(NCls(SpaceChars \cup {DQ, SQ}))>>)

\* the address pattern that stops at whitespace only
ReAddress_ToSpace ==
  Cat(<<Lit(S_http), Opt(Lit(<<"s">>)), Lit(S_css), Plus(NCls(SpaceChars))>>)

\* https?://[^\s"']+
ReAddress ==
  Cat(<<Lit(S_http), Opt(Lit(<<"s">>)), Lit(S_css),
        Plus(NCls(SpaceChars \cup {DQ, SQ}))>>)

\* (?:"|'|)(https?://[^\s"']+)("|'|)
urlRegex ==
  Cat(<<Alt(<<Lit(<<DQ>>), Lit(<<SQ>>), Empty>>),
        Grp(1, ReAddress),
        Grp(2, Alt(<<Lit(<<DQ>>), Lit(<<SQ>>), Empty>>))>>)

\* (https?://[^\s"']+)
urlRegexLoose == Grp(1, ReAddress)

\* -X\s+(\w+)
methodRegex == Cat(<<Lit(S_X), Plus(ReSpace), Grp(1, Plus(ReWord))>>)

\* --request\s+(\w+)
requestRegex == Cat(<<Lit(S_request), Plus(ReSpace), Grp(1, Plus(ReWord))>>)

\* (?:-H|--header)\s+(?:'([^']*)'|"([^"]*)"|([^\s]+))
headerRegex ==
  Cat(<<Alt(<<Lit(S_H), Lit(S_header)>>), Plus(ReSpace),
        Alt(<<ReSingleQuoted, ReDoubleQuoted, Grp(3, Plus(NCls(SpaceChars)))>>)>>)

\* (?:--data|-d)\s+'([^']*)'
bodySingleQuoteRegex ==
  Cat(<<Alt(<<Lit(S_data), Lit(S_d)>>), Plus(ReSpace),
        Lit(<<SQ>>), Grp(1, Star(NCls({SQ}))), Lit(<<SQ>>)>>)

\* (?:--data|-d)\s+"([^"]*)"
bodyDoubleQuoteRegex ==
  Cat(<<Alt(<<Lit(S_data), Lit(S_d)>>), Plus(ReSpace),
        Lit(<<DQ>>), Grp(1, Star(NCls({DQ}))), Lit(<<DQ>>)>>)

\* --data-raw\s+['"]?(.*?)['"]?$
dataRawRegex ==
  Cat(<<Lit(S_dataraw), Plus(ReSpace), Opt(Cls({SQ, DQ})),
        Grp(1, LazyStar(ReAny)), Opt(Cls({SQ, DQ})), EndText>>)

\* (?:--data|-d)\s+([^\s]+)
bodyNoQuoteRegex ==
  Cat(<<Alt(<<Lit(S_data), Lit(S_d)>>), Plus(ReSpace),
        Grp(1, Plus(NCls(SpaceChars)))>>)

\* (?:--form|-F)\s+(?:'([^']*)'|"([^"]*)"|([^\s]+))
formRegex ==
  Cat(<<Alt(<<Lit(S_form), Lit(S_F)>>), Plus(ReSpace),
        Alt(<<ReSingleQuoted, ReDoubleQuoted, Grp(3, Plus(NCls(SpaceChars)))>>)>>)

\* [^\s-][^\s]*(?:\s+[^\s-][^\s]*)*?   the unquoted value of an auxiliary option
ReBareValue ==
  Cat(<<NCls(SpaceChars \cup {"-"}), Star(NCls(SpaceChars)),
        LazyStar(Cat(<<Plus(ReSpace), NCls(SpaceChars \cup {"-"}),
                       Star(NCls(SpaceChars))>>))>>)

\* '([^']*)'|"([^"]*)"|([^\s-][^\s]*(?:\s+[^\s-][^\s]*)*?)(?:\s+-|$)
ReValueToFlag ==
  Alt(<<ReSingleQuoted, ReDoubleQuoted,
        Cat(<<Grp(3, ReBareValue),
              Alt(<<Cat(<<Plus(ReSpace), Lit(<<"-">>)>>), EndText>>)>>)>>)

\* --referer\s+(?:'([^']*)'|"([^"]*)"|([^\s-][^\s]*(?:\s+[^\s-][^\s]*)*?)(?:\s+-|$))
refererRegex == Cat(<<Lit(S_referer), Plus(ReSpace), ReValueToFlag>>)

\* --proxy\s+(?:'([^']*)'|"([^"]*)"|([^\s-][^\s]*(?:\s+[^\s-][^\s]*)*?)(?:\s+-|$))
proxyRegex == Cat(<<Lit(S_proxy), Plus(ReSpace), ReValueToFlag>>)

(***************************************************************************)
(* net/url: url.Parse of an absolute address                               *)
(* scheme://userinfo@host:port/path?query#fragment                         *)
(***************************************************************************)
Before(s, c) == IF Index(s, c) = 0 THEN s ELSE SubSeq(s, 1, Index(s, c) - 1)
After(s, c) == IF Index(s, c) = 0 THEN <<>> ELSE SubSeq(s, Index(s, c) + 1, Len(s))

\* strings.LastIndex for a one-character separator, 0 when it is absent
LastIndex(s, c) ==
  IF \E i \in 1..Len(s) : s[i] = c
    THEN CHOOSE i \in 1..Len(s) : s[i] = c /\ \A j \in (i + 1)..Len(s) : s[j] # c
    ELSE 0

HexSeq == <<"0", "1", "2", "3", "4", "5", "6", "7", "8", "9", "A", "B", "C", "D", "E", "F">>

IsHex(c) == \E i \in 1..Len(HexSeq) : HexSeq[i] = UpperOf(c)

HexVal(c) == (CHOOSE i \in 1..Len(HexSeq) : HexSeq[i] = UpperOf(c)) - 1

\* the characters of the codes 32..95
AsciiSeq ==
  <<" ", "!", "\"", "#", "$", "%", "&", "'", "(", ")", "*", "+", ",", "-", ".", "/",
    "0", "1", "2", "3", "4", "5", "6", "7", "8", "9", ":", ";", "<", "=", ">", "?",
    "@", "A", "B", "C", "D", "E", "F", "G", "H", "I", "J", "K", "L", "M", "N", "O",
    "P", "Q", "R", "S", "T", "U", "V", "W", "X", "Y", "Z", "[", "\\", "]", "^", "_">>

\* the characters of the codes 97..122 are LowerSeq; those of 123..126
AsciiTail == <<"{", "|", "}", "~">>

\* the byte of code n as a character; any other byte stands for itself
ByteChar(n) ==
  IF n \in 32..95 THEN AsciiSeq[n - 31]
  ELSE IF n \in 97..122 THEN LowerSeq[n - 96]
  ELSE IF n \in 123..126 THEN AsciiTail[n - 122]
  ELSE <<"byte", n>>

EscapeError == [ok |-> FALSE, text |-> <<>>]

\* an unescape that keeps a malformed escape as it is written
RECURSIVE PathUnescape_Lenient(_, _, _)
PathUnescape_Lenient(s, i, acc) ==
  IF i > Len(s) THEN [ok |-> TRUE, text |-> acc]
  ELSE IF s[i] = "%" /\ i + 2 <= Len(s) /\ IsHex(s[i + 1]) /\ IsHex(s[i + 2])
    THEN PathUnescape_Lenient(s, i + 3,
           Append(acc, ByteChar(16 * HexVal(s[i + 1]) + HexVal(s[i + 2]))))
  ELSE PathUnescape_Lenient(s, i + 1, Append(acc, s[i]))

\* unescape(s, encodePath), unescape(s, encodeFragment), unescape(s,
\* encodeUserPassword): %XX to the byte XX, an error on any other %
RECURSIVE PathUnescape(_, _, _)
PathUnescape(s, i, acc) ==
  IF i > Len(s) THEN [ok |-> TRUE, text |-> acc]
  ELSE IF s[i] = "%"
    THEN IF i + 2 <= Len(s) /\ IsHex(s[i + 1]) /\ IsHex(s[i + 2])
           THEN PathUnescape(s, i + 3,
                             Append(acc, ByteChar(16 * HexVal(s[i + 1]) + HexVal(s[i + 2]))))
           ELSE EscapeError
  ELSE PathUnescape(s, i + 1, Append(acc, s[i]))

\* shouldEscape(c, encodeHost) is false on these
HostChars ==
  WordChars \cup {"-", ".", "~", "!", "$", "&", "'", "(", ")", "*", "+", ",", ";", "=",
                  ":", "[", "]", "<", ">", "\""}

\* unescape(s, encodeHost): only %25 and the escapes of non-ASCII bytes are
\* admitted, and every other character has to be a host character
RECURSIVE HostUnescape(_, _, _)
HostUnescape(s, i, acc) ==
  IF i > Len(s) THEN [ok |-> TRUE, text |-> acc]
  ELSE IF s[i] = "%"
    THEN IF /\ i + 2 <= Len(s) /\ IsHex(s[i + 1]) /\ IsHex(s[i + 2])
            /\ (HexVal(s[i + 1]) >= 8 \/ SubSeq(s, i, i + 2) = <<"%", "2", "5">>)
           THEN HostUnescape(s, i + 3,
                             Append(acc, ByteChar(16 * HexVal(s[i + 1]) + HexVal(s[i + 2]))))
           ELSE EscapeError
  ELSE IF s[i] \notin HostChars THEN EscapeError
  ELSE HostUnescape(s, i + 1, Append(acc, s[i]))

\* validOptionalPort: nothing, or ":" and digits
validOptionalPort(port) ==
  port = <<>> \/ (port[1] = ":" /\ \A i \in 2..Len(port) : port[i] \in DigitChars)

\* parseHost that drops the port from the host
parseHost_NoPort(host) ==
  IF LastIndex(host, ":") = 0 THEN HostUnescape(host, 1, <<>>)
  ELSE HostUnescape(SubSeq(host, 1, LastIndex(host, ":") - 1), 1, <<>>)

\* parseHost: the port is checked after the "]" of an address literal, else
\* after the last ":"
parseHost(host) ==
  LET portOK ==
        IF HasPrefix(host, <<"[">>)
          THEN /\ LastIndex(host, "]") # 0
               /\ validOptionalPort(SubSeq(host, LastIndex(host, "]") + 1, Len(host)))
          ELSE \/ LastIndex(host, ":") = 0
               \/ validOptionalPort(SubSeq(host, LastIndex(host, ":"), Len(host)))
  IN IF portOK THEN HostUnescape(host, 1, <<>>) ELSE EscapeError

\* validUserinfo
UserinfoChars ==
  WordChars \cup {"-", ".", ":", "~", "!", "$", "&", "'", "(", ")", "*", "+", ",", ";",
                  "=", "%", "@"}

\* parseAuthority: the text after the last "@" is the host, the text before
\* it the user information
parseAuthority(authority) ==
  LET at == LastIndex(authority, "@")
      userinfo == SubSeq(authority, 1, at - 1)
  IN IF at = 0 THEN parseHost(authority)
     ELSE IF /\ \A i \in 1..Len(userinfo) : userinfo[i] \in UserinfoChars
             /\ PathUnescape(Before(userinfo, ":"), 1, <<>>).ok
             /\ PathUnescape(After(userinfo, ":"), 1, <<>>).ok
       THEN parseHost(SubSeq(authority, at + 1, Len(authority)))
     ELSE EscapeError

\* url.Parse: err is TRUE when the address is rejected; Path is the
\* unescaped path, Host the authority without the user information
urlParse(u) ==
  LET noFrag == Before(u, "#")
      scheme == Before(noFrag, ":")
      rest == After(noFrag, ":")
      hier == Before(rest, "?")
      authority == IF HasPrefix(hier, <<"/", "/">>)
                     THEN Before(SubSeq(hier, 3, Len(hier)), "/")
                     ELSE <<>>
      rawPath == IF HasPrefix(hier, <<"/", "/">>)
                   THEN SubSeq(hier, 3 + Len(authority), Len(hier))
                   ELSE hier
      host == parseAuthority(authority)
      path == PathUnescape(rawPath, 1, <<>>)
  IN IF host.ok /\ path.ok /\ PathUnescape(After(u, "#"), 1, <<>>).ok
       THEN [err |-> FALSE, Scheme |-> scheme, Host |-> host.text, Path |-> path.text,
             RawQuery |-> After(rest, "?")]
       ELSE [err |-> TRUE, Scheme |-> <<>>, Host |-> <<>>, Path |-> <<>>,
             RawQuery |-> <<>>]

(***************************************************************************)
(* CurlParser.extractURL                                                   *)
(***************************************************************************)
ErrNoURL == "no valid URL found"
NoError == "nil"

\* extractURL that reports no error when neither pattern matches
extractURL_NoError(cmd) ==
  LET m1 == FindStringSubmatch(urlRegex, cmd)
  IN [url |-> IF m1.found THEN Submatch(m1, cmd, 1) ELSE <<>>, err |-> NoError]

extractURL(cmd) ==
  LET m1 == FindStringSubmatch(urlRegex, cmd)
      m2 == FindStringSubmatch(urlRegexLoose, cmd)
  IN IF m1.found THEN [url |-> Submatch(m1, cmd, 1), err |-> NoError]
     ELSE IF m2.found THEN [url |-> Submatch(m2, cmd, 1), err |-> NoError]
     ELSE [url |-> <<>>, err |-> ErrNoURL]

(***************************************************************************)
(* CurlParser.extractMethod                                                *)
(***************************************************************************)
\* extractMethod without the test for --form / -F
extractMethod_NoForm(cmd) ==
  LET m1 == FindStringSubmatch(methodRegex, cmd)
      m2 == FindStringSubmatch(requestRegex, cmd)
  IN IF m1.found THEN ToUpper(Submatch(m1, cmd, 1))
     ELSE IF m2.found THEN ToUpper(Submatch(m2, cmd, 1))
     ELSE IF Contains(cmd, S_data) \/ Contains(cmd, S_d) THEN S_POST
     ELSE S_GET

extractMethod(cmd) ==
  LET m1 == FindStringSubmatch(methodRegex, cmd)
      m2 == FindStringSubmatch(requestRegex, cmd)
  IN IF m1.found THEN ToUpper(Submatch(m1, cmd, 1))
     ELSE IF m2.found THEN ToUpper(Submatch(m2, cmd, 1))
     ELSE IF Contains(cmd, S_data) \/ Contains(cmd, S_d) THEN S_POST
     ELSE IF Contains(cmd, S_form) \/ Contains(cmd, S_F) THEN S_POST
     ELSE S_GET

(***************************************************************************)
(* CurlParser.extractHeaders                                               *)
(***************************************************************************)
\* the first non-empty group among 1..3, "" when all are empty
FirstGroup(m, s) ==
  IF Submatch(m, s, 1) # <<>> THEN Submatch(m, s, 1)
  ELSE IF Submatch(m, s, 2) # <<>> THEN Submatch(m, s, 2)
  ELSE Submatch(m, s, 3)

\* an assignment that leaves an existing key alone
MapPut_KeepFirst(f, k, v) ==
  [x \in DOMAIN f \cup {k} |-> IF x \in DOMAIN f THEN f[x] ELSE v]

\* req.Headers[key] = value
MapPut(f, k, v) == [x \in DOMAIN f \cup {k} |-> IF x = k THEN v ELSE f[x]]

EmptyMap == [x \in {} |-> <<>>]

\* the loop body without the two strings.TrimSpace calls
PutHeader_NoTrim(headers, header) ==
  IF header # <<>> /\ Index(header, ":") # 0
    THEN MapPut(headers, Before(header, ":"), After(header, ":"))
    ELSE headers

\* the loop body without the len(parts) == 2 test: a value without a colon
\* becomes a name with an empty value
PutHeader_NoColonKept(headers, header) ==
  IF header = <<>> THEN headers
  ELSE IF Index(header, ":") = 0 THEN MapPut(headers, TrimSpace(header), <<>>)
  ELSE MapPut(headers, TrimSpace(Before(header, ":")), TrimSpace(After(header, ":")))

\* one iteration of the loop over the matches
PutHeader(headers, header) ==
  IF header # <<>> /\ Index(header, ":") # 0
    THEN MapPut(headers, TrimSpace(Before(header, ":")), TrimSpace(After(header, ":")))
    ELSE headers

RECURSIVE HeaderLoop(_, _, _, _)
HeaderLoop(matches, i, cmd, headers) ==
  IF i > Len(matches) THEN headers
  ELSE HeaderLoop(matches, i + 1, cmd, PutHeader(headers, FirstGroup(matches[i], cmd)))

extractHeaders(cmd) ==
  HeaderLoop(FindAllStringSubmatch(headerRegex, cmd), 1, cmd, EmptyMap)

(***************************************************************************)
(* CurlParser.extractBody                                                  *)
(***************************************************************************)
\* strings.Join(formData, "&") over the non-empty form values
RECURSIVE FormJoin(_, _, _, _)
FormJoin(matches, i, cmd, acc) ==
  IF i > Len(matches) THEN acc
  ELSE LET v == FirstGroup(matches[i], cmd)
       IN FormJoin(matches, i + 1, cmd,
                   IF v = <<>> THEN acc ELSE acc \o <<v>>)

RECURSIVE Join(_, _)
Join(parts, sep) ==
  IF parts = <<>> THEN <<>>
  ELSE IF Len(parts) = 1 THEN parts[1]
  ELSE parts[1] \o sep \o Join(Tail(parts), sep)

\* extractBody that reads only the first --form/-F occurrence
extractBody_FirstForm(cmd) ==
  LET m1 == FindStringSubmatch(bodySingleQuoteRegex, cmd)
      m2 == FindStringSubmatch(bodyDoubleQuoteRegex, cmd)
      m3 == FindStringSubmatch(dataRawRegex, cmd)
      m4 == FindStringSubmatch(bodyNoQuoteRegex, cmd)
      fm == FindStringSubmatch(formRegex, cmd)
  IN IF m1.found THEN Submatch(m1, cmd, 1)
     ELSE IF m2.found THEN Submatch(m2, cmd, 1)
     ELSE IF m3.found THEN Submatch(m3, cmd, 1)
     ELSE IF m4.found THEN Submatch(m4, cmd, 1)
     ELSE IF fm.found THEN FirstGroup(fm, cmd)
     ELSE <<>>

extractBody(cmd) ==
  LET m1 == FindStringSubmatch(bodySingleQuoteRegex, cmd)
      m2 == FindStringSubmatch(bodyDoubleQuoteRegex, cmd)
      m3 == FindStringSubmatch(dataRawRegex, cmd)
      m4 == FindStringSubmatch(bodyNoQuoteRegex, cmd)
      fm == FindAllStringSubmatch(formRegex, cmd)
  IN IF m1.found THEN Submatch(m1, cmd, 1)
     ELSE IF m2.found THEN Submatch(m2, cmd, 1)
     ELSE IF m3.found THEN Submatch(m3, cmd, 1)
     ELSE IF m4.found THEN Submatch(m4, cmd, 1)
     ELSE IF Len(fm) > 0 THEN Join(FormJoin(fm, 1, cmd, <<>>), <<"&">>)
     ELSE <<>>

(***************************************************************************)
(* CurlParser.extractQueryParams: url.Parse(req.URL).Query(), and for each *)
(* key the first of its values                                             *)
(***************************************************************************)
\* url.QueryUnescape: %XX to the byte XX, + to a space; an error on a % that
\* is not followed by two hexadecimal digits
RECURSIVE Unescape(_, _, _)
Unescape(s, i, acc) ==
  IF i > Len(s) THEN [ok |-> TRUE, text |-> acc]
  ELSE IF s[i] = "%"
    THEN IF i + 2 <= Len(s) /\ IsHex(s[i + 1]) /\ IsHex(s[i + 2])
           THEN Unescape(s, i + 3,
                         Append(acc, ByteChar(16 * HexVal(s[i + 1]) + HexVal(s[i + 2]))))
           ELSE EscapeError
  ELSE IF s[i] = "+" THEN Unescape(s, i + 1, Append(acc, " "))
  ELSE Unescape(s, i + 1, Append(acc, s[i]))

QueryUnescape(s) == Unescape(s, 1, <<>>)

\* url.ParseQuery: the pairs between "&", each cut at its first "="; a pair
\* with a ";" or a bad escape is dropped, an empty pair is skipped;
\* m[key] = append(m[key], value)
RECURSIVE ParseQuery(_, _)
ParseQuery(query, m) ==
  IF query = <<>> THEN m
  ELSE LET pair == Before(query, "&")
           rest == After(query, "&")
           k == QueryUnescape(Before(pair, "="))
           v == QueryUnescape(After(pair, "="))
       IN IF Index(pair, ";") # 0 \/ pair = <<>> \/ ~k.ok \/ ~v.ok
            THEN ParseQuery(rest, m)
            ELSE ParseQuery(rest,
                   MapPut(m, k.text,
                          IF k.text \in DOMAIN m THEN Append(m[k.text], v.text)
                          ELSE <<v.text>>))

\* nothing is written when url.Parse fails; else req.Query[key] = values[0]
extractQueryParams(u) ==
  LET query == ParseQuery(urlParse(u).RawQuery, EmptyMap)
  IN IF urlParse(u).err THEN EmptyMap
     ELSE [key \in DOMAIN query |-> query[key][1]]

(***************************************************************************)
(* CurlParser.extractCookieFromParams, CurlParser.extractCookies           *)
(***************************************************************************)
S_b == <<"-", "b">>
S_cookie == <<"-", "-", "c", "o", "o", "k", "i", "e">>
S_CookieName == <<"C", "o", "o", "k", "i", "e">>
S_cookieName == <<"c", "o", "o", "k", "i", "e">>

\* (?:\s+-|$|\s+https?://)
ReFlagEndOrAddress ==
  Alt(<<Cat(<<Plus(ReSpace), Lit(<<"-">>)>>),
        EndText,
        Cat(<<Plus(ReSpace), Lit(S_http), Opt(Lit(<<"s">>)), Lit(S_css)>>)>>)

\* (?:-b|--cookie)\s+'([^']*)'
cookieSingleQuoteRegex ==
  Cat(<<Alt(<<Lit(S_b), Lit(S_cookie)>>), Plus(ReSpace),
        Lit(<<SQ>>), Grp(1, Star(NCls({SQ}))), Lit(<<SQ>>)>>)

\* (?:-b|--cookie)\s+"([^"]*)"
cookieDoubleQuoteRegex ==
  Cat(<<Alt(<<Lit(S_b), Lit(S_cookie)>>), Plus(ReSpace),
        Lit(<<DQ>>), Grp(1, Star(NCls({DQ}))), Lit(<<DQ>>)>>)

\* (?:-b|--cookie)\s+([^\s-][^\s]*(?:\s+[^\s-][^\s]*)*?)(?:\s+-|$|\s+https?://)
cookieNoQuoteRegex ==
  Cat(<<Alt(<<Lit(S_b), Lit(S_cookie)>>), Plus(ReSpace),
        Grp(1, ReBareValue), ReFlagEndOrAddress>>)

\* works on cp.curlCommand, the text as given to NewCurlParser
extractCookieFromParams(command) ==
  LET sq == FindStringSubmatch(cookieSingleQuoteRegex, command)
      dq == FindStringSubmatch(cookieDoubleQuoteRegex, command)
      nq == FindStringSubmatch(cookieNoQuoteRegex, command)
  IN IF sq.found THEN Submatch(sq, command, 1)
     ELSE IF dq.found THEN Submatch(dq, command, 1)
     ELSE IF nq.found THEN TrimSpace(Submatch(nq, command, 1))
     ELSE <<>>

\* strings.Split(s, sep) for a one-character separator
RECURSIVE Split(_, _)
Split(s, c) ==
  IF Index(s, c) = 0 THEN <<s>>
  ELSE <<Before(s, c)>> \o Split(After(s, c), c)

\* the loop body without the strings.TrimSpace calls
PutCookie_NoTrim(cookies, pair) ==
  IF pair # <<>> /\ Index(pair, "=") # 0
    THEN MapPut(cookies, Before(pair, "="), After(pair, "="))
    ELSE cookies

\* the loop body without the len(parts) == 2 test: a segment without "="
\* becomes a name with an empty value
PutCookie_BareNameKept(cookies, pair) ==
  IF TrimSpace(pair) = <<>> THEN cookies
  ELSE IF Index(TrimSpace(pair), "=") = 0 THEN MapPut(cookies, TrimSpace(pair), <<>>)
  ELSE MapPut(cookies, TrimSpace(Before(TrimSpace(pair), "=")),
              TrimSpace(After(TrimSpace(pair), "=")))

\* one iteration of the loop over the cookie pairs
PutCookie(cookies, pair) ==
  IF TrimSpace(pair) # <<>> /\ Index(TrimSpace(pair), "=") # 0
    THEN MapPut(cookies, TrimSpace(Before(TrimSpace(pair), "=")),
                TrimSpace(After(TrimSpace(pair), "=")))
    ELSE cookies

RECURSIVE CookieLoop(_, _, _)
CookieLoop(pairs, i, cookies) ==
  IF i > Len(pairs) THEN cookies
  ELSE CookieLoop(pairs, i + 1, PutCookie(cookies, pairs[i]))

\* the fallback with the header cookie looked up before the header Cookie
extractCookies_LowerFirst(command, headers) ==
  LET fromParams == extractCookieFromParams(command)
      cookieData ==
        IF fromParams # <<>> THEN fromParams
        ELSE IF S_cookieName \in DOMAIN headers THEN headers[S_cookieName]
        ELSE IF S_CookieName \in DOMAIN headers THEN headers[S_CookieName]
        ELSE <<>>
  IN IF cookieData = <<>>
       THEN [RawCookie |-> <<>>, ParsedCookies |-> EmptyMap]
       ELSE [RawCookie |-> cookieData,
             ParsedCookies |-> CookieLoop(Split(cookieData, ";"), 1, EmptyMap)]

\* the cookie option first, else the header Cookie, else the header cookie
extractCookies(command, headers) ==
  LET fromParams == extractCookieFromParams(command)
      cookieData ==
        IF fromParams # <<>> THEN fromParams
        ELSE IF S_CookieName \in DOMAIN headers THEN headers[S_CookieName]
        ELSE IF S_cookieName \in DOMAIN headers THEN headers[S_cookieName]
        ELSE <<>>
  IN IF cookieData = <<>>
       THEN [RawCookie |-> <<>>, ParsedCookies |-> EmptyMap]
       ELSE [RawCookie |-> cookieData,
             ParsedCookies |-> CookieLoop(Split(cookieData, ";"), 1, EmptyMap)]

(***************************************************************************)
(* CurlParser.extractReferer, CurlParser.extractProxy                      *)
(***************************************************************************)
\* the loop "for i := 1; i <= 3; i++" over a match: the field keeps its
\* zero value when no group is non-empty
AuxValue(re, cmd) ==
  LET m == FindStringSubmatch(re, cmd)
  IN IF m.found THEN TrimSpace(FirstGroup(m, cmd)) ELSE <<>>

extractReferer(cmd) == AuxValue(refererRegex, cmd)

extractProxy(cmd) == AuxValue(proxyRegex, cmd)

(***************************************************************************)
(* CurlParser.extractUserAgent, extractAuth, extractTimeouts,              *)
(* extractSSLOptions, extractCookieJar, extractFollowRedirects             *)
(***************************************************************************)
S_A == <<"-", "A">>
S_userAgent == <<"-", "-", "u", "s", "e", "r", "-", "a", "g", "e", "n", "t">>
S_u == <<"-", "u">>
S_user == <<"-", "-", "u", "s", "e", "r">>
S_cacert == <<"-", "-", "c", "a", "c", "e", "r", "t">>
S_c == <<"-", "c">>
S_cookieJar == <<"-", "-", "c", "o", "o", "k", "i", "e", "-", "j", "a", "r">>
S_maxTime == <<"-", "-", "m", "a", "x", "-", "t", "i", "m", "e">>
S_insecure == <<"-", "-", "i", "n", "s", "e", "c", "u", "r", "e">>
S_L == <<"-", "L">>
S_location == <<"-", "-", "l", "o", "c", "a", "t", "i", "o", "n">>

\* '([^']*)'|"([^"]*)"|([^\s-][^\s]*(?:\s+[^\s-][^\s]*)*?)(?:\s+-|$|\s+https?://)
ReValueToFlagOrAddress ==
  Alt(<<ReSingleQuoted, ReDoubleQuoted, Cat(<<Grp(3, ReBareValue), ReFlagEndOrAddress>>)>>)

\* (?:-A|--user-agent)\s+(?:...)
userAgentRegex ==
  Cat(<<Alt(<<Lit(S_A), Lit(S_userAgent)>>), Plus(ReSpace), ReValueToFlagOrAddress>>)

\* (?:-u|--user)\s+(?:...)
authRegex ==
  Cat(<<Alt(<<Lit(S_u), Lit(S_user)>>), Plus(ReSpace), ReValueToFlagOrAddress>>)

\* --cacert\s+(?:...)
cacertRegex == Cat(<<Lit(S_cacert), Plus(ReSpace), ReValueToFlagOrAddress>>)

\* (?:-c|--cookie-jar)\s+(?:...)
cookieJarRegex ==
  Cat(<<Alt(<<Lit(S_c), Lit(S_cookieJar)>>), Plus(ReSpace), ReValueToFlagOrAddress>>)

\* --connect-timeout\s+(\d+)
connectTimeoutRegex == Cat(<<Lit(S_connectTimeout), Plus(ReSpace), Grp(1, Plus(ReDigit))>>)

\* --max-time\s+(\d+)
maxTimeRegex == Cat(<<Lit(S_maxTime), Plus(ReSpace), Grp(1, Plus(ReDigit))>>)

extractUserAgent(cmd) == AuxValue(userAgentRegex, cmd)

extractAuth(cmd) == AuxValue(authRegex, cmd)

extractCACert(cmd) == AuxValue(cacertRegex, cmd)

extractCookieJar(cmd) == AuxValue(cookieJarRegex, cmd)

\* fmt.Sscanf(digits, "%d", &field) on a run of digits: the number in base
\* ten; a number beyond the int range is an error and the field keeps 0
MaxInt64Digits == <<"9", "2", "2", "3", "3", "7", "2", "0", "3", "6", "8", "5", "4", "7", "7", "5", "8", "0", "7">>

RECURSIVE StripZeros(_)
StripZeros(d) == IF Len(d) > 1 /\ d[1] = "0" THEN StripZeros(Tail(d)) ELSE d

\* a <= b for two digit runs of the same length
RECURSIVE DigitsLeq(_, _)
DigitsLeq(a, b) ==
  IF a = <<>> THEN TRUE
  ELSE IF HexVal(a[1]) < HexVal(b[1]) THEN TRUE
  ELSE IF HexVal(a[1]) > HexVal(b[1]) THEN FALSE
  ELSE DigitsLeq(Tail(a), Tail(b))

FitsInt(d) ==
  \/ Len(StripZeros(d)) < Len(MaxInt64Digits)
  \/ Len(StripZeros(d)) = Len(MaxInt64Digits) /\ DigitsLeq(StripZeros(d), MaxInt64Digits)

RECURSIVE DecimalValue(_, _)
DecimalValue(d, acc) ==
  IF d = <<>> THEN acc ELSE DecimalValue(Tail(d), 10 * acc + HexVal(d[1]))

Sscanf(d) == IF FitsInt(d) THEN DecimalValue(d, 0) ELSE 0

\* the two fields read with the pattern of --connect-timeout alone
extractTimeout_Shared(re, cmd) ==
  LET m == FindStringSubmatch(connectTimeoutRegex, cmd)
  IN IF m.found THEN Sscanf(Submatch(m, cmd, 1)) ELSE 0

extractTimeout(re, cmd) ==
  LET m == FindStringSubmatch(re, cmd)
  IN IF m.found THEN Sscanf(Submatch(m, cmd, 1)) ELSE 0

\* strings.Contains(cmd, "--insecure")
extractInsecure(cmd) == Contains(cmd, S_insecure)

\* strings.Contains(cmd, "-L") || strings.Contains(cmd, "--location")
extractFollowRedirects(cmd) == Contains(cmd, S_L) \/ Contains(cmd, S_location)

(***************************************************************************)
(* CurlParser.Parse                                                        *)
(***************************************************************************)
NilRequest == [nil |-> TRUE]

\* strings.TrimPrefix(cmd, "curl ") when cmd has that prefix
StripCurl(cmd) ==
  IF HasPrefix(cmd, S_curl) THEN SubSeq(cmd, Len(S_curl) + 1, Len(cmd)) ELSE cmd

ParseResult(command) ==
  LET cmd == StripCurl(command)
      u == extractURL(cmd)
      parsed == urlParse(u.url)
      cookies == extractCookies(command, extractHeaders(cmd))
  IN IF u.err # NoError
       THEN [req |-> NilRequest, err |-> u.err]
       ELSE [req |-> [Method |-> extractMethod(cmd),
                      URL |-> u.url,
                      BaseURL |-> IF parsed.err THEN <<>>
                                  ELSE parsed.Scheme \o S_css \o parsed.Host,
                      Path |-> parsed.Path,
                      Headers |-> extractHeaders(cmd),
                      Body |-> extractBody(cmd),
                      Query |-> extractQueryParams(u.url),
                      RawCookie |-> cookies.RawCookie,
                      ParsedCookies |-> cookies.ParsedCookies,
                      Referer |-> extractReferer(cmd),
                      Proxy |-> extractProxy(cmd),
                      UserAgent |-> extractUserAgent(cmd),
                      Auth |-> extractAuth(cmd),
                      ConnectTimeout |-> extractTimeout(connectTimeoutRegex, cmd),
                      MaxTime |-> extractTimeout(maxTimeRegex, cmd),
                      Insecure |-> extractInsecure(cmd),
                      CACert |-> extractCACert(cmd),
                      CookieJar |-> extractCookieJar(cmd),
                      FollowRedirects |-> extractFollowRedirects(cmd)],
             err |-> NoError]

(***************************************************************************)
(* The commands given to NewCurlParser.  A command is written from a list  *)
(* of arguments: options with a value in one of the quoting styles of the  *)
(* README's parameter tables, and target addresses.                        *)
(***************************************************************************)
Arg(kind, opt, style, val) == [kind |-> kind, opt |-> opt, style |-> style, val |-> val]

\* style: "sq" 'v'   "dq" "v"   "bare" v   "open" 'v (no closing quote)   "none" (no value)
Quoted(style, val) ==
  CASE style = "sq" -> <<SQ>> \o val \o <<SQ>>
    [] style = "dq" -> <<DQ>> \o val \o <<DQ>>
    [] style = "bare" -> val
    [] style = "open" -> <<SQ>> \o val
    [] style = "none" -> <<>>

RenderArg(a) ==
  IF a.kind = "url" THEN Quoted(a.style, a.val)
  ELSE IF a.style = "none" THEN a.opt
  ELSE a.opt \o <<" ">> \o Quoted(a.style, a.val)

RECURSIVE RenderArgs(_, _)
RenderArgs(as, sep) ==
  IF as = <<>> THEN <<>>
  ELSE IF Len(as) = 1 THEN RenderArg(as[1])
  ELSE RenderArg(as[1]) \o sep \o RenderArgs(Tail(as), sep)

Render(as, sep) == S_curl \o RenderArgs(as, sep)

\* between two arguments: a space, or the README's line continuation
SepSpace == <<" ">>
SepContinuation == <<" ", BSL, NL, " ", " ">>

V_POST == <<"P", "O", "S", "T">>
V_put == <<"p", "u", "t">>
V_DELETE == <<"D", "E", "L", "E", "T", "E">>
V_Accept == <<"A", "c", "c", "e", "p", "t", ":", " ", "a", "/", "b">>
V_XId_ab == <<"X", "-", "I", "d", ":", " ", "a", ":", "b">>
V_XId_7 == <<"X", "-", "I", "d", ":", "7">>
V_XId_q == <<"X", "-", "I", "d", ":", " ", "q">>
V_AcceptPadded == <<" ", "A", "c", "c", "e", "p", "t", " ", ":", " ", " ", "t", "e", "x", "t", " ">>
V_Xdata == <<"X", "-", "d", "a", "t", "a", ":", " ", "1">>
V_NoColon == <<"N", "o", "C", "o", "l", "o", "n">>
V_json == <<"{", "\"", "k", "\"", ":", "\"", "v", "\"", "}">>
V_kv == <<"k", "=", "v">>
V_x1 == <<"x", "=", "1">>
V_jsonSp == <<"{", "\"", "k", "\"", ":", " ", "\"", "v", "\"", "}">>
V_raw == <<"r", "a", "w">>
V_r1 == <<"r", "=", "1">>
V_a1 == <<"a", "=", "1">>
V_b2 == <<"b", "=", "2">>
V_c3 == <<"c", "=", "3">>
V_google == <<"h", "t", "t", "p", "s", ":", "/", "/", "g", ".", "c", "o", "m">>
V_proxy == <<"h", "t", "t", "p", ":", "/", "/", "p", ".", "c", "o", "m", ":", "8", "0">>
V_get == <<"h", "t", "t", "p", "s", ":", "/", "/", "h", ".", "o", "r", "g", "/", "g", "e", "t">>
V_query == <<"h", "t", "t", "p", "s", ":", "/", "/", "h", ".", "o", "r", "g", "/", "p", "?", "a", "=", "1">>
V_mydomain == <<"h", "t", "t", "p", "s", ":", "/", "/", "m", "y", "-", "d", "o", "m", "a", "i", "n", ".", "o", "r", "g", "/", "g", "e", "t">>
V_nopath == <<"h", "t", "t", "p", ":", "/", "/", "h", ".", "o", "r", "g">>
V_repeat == <<"h", "t", "t", "p", "s", ":", "/", "/", "h", ".", "o", "r", "g", "/", "g", "e", "t", "?", "a", "=", "1", "&", "a", "=", "2", "&", "b", "=", "3">>
V_escaped == <<"h", "t", "t", "p", "s", ":", "/", "/", "h", ".", "o", "r", "g", "/", "s", "?", "q", "=", "x", "+", "y", "&", "e", "=", "%", "3", "D">>
V_refQuery == <<"h", "t", "t", "p", "s", ":", "/", "/", "g", ".", "c", "o", "m", "/", "?", "r", "=", "9">>
V_ckXY == <<"x", "=", "1", ";", " ", "y", "=", "2">>
V_ckDup == <<"n", "=", "v", ";", "b", "a", "d", ";", " ", "n", " ", "=", " ", "w", "=", "%", "2", "0", " ">>
V_ckBare == <<"s", "=", "1", ";", "t", "=", "2">>
V_HCookie == <<"C", "o", "o", "k", "i", "e", ":", " ", "z", "=", "3">>
V_Hcookie == <<"c", "o", "o", "k", "i", "e", ":", " ", "w", "=", "4">>
V_ua1 == <<"u", "a", "/", "1">>
V_up == <<"u", ":", "p">>
V_p80 == <<"p", ":", "8", "0">>
V_capem == <<"c", "a", "-", "x", ".", "p", "e", "m">>
V_ctxt == <<"c", ".", "t", "x", "t">>
V_uaParen == <<"M", "/", "5", " ", "(", "X", ";", " ", "y", ")">>
V_uaHyphen == <<"a", "-", "c", " ", "b">>
V_upHyphen == <<"u", ":", "p", "-", "1">>
V_caPadded == <<" ", "/", "c", " ", "a", ".", "p", "e", "m", " ">>
V_jarSpace == <<"j", " ", "k", ".", "t", "x", "t">>
V_30 == <<"3", "0">>
V_60 == <<"6", "0">>
V_007 == <<"0", "0", "7">>
V_20nines == <<"9", "9", "9", "9", "9", "9", "9", "9", "9", "9", "9", "9", "9", "9", "9", "9", "9", "9", "9", "9">>
V_xs == <<"x", "s">>
V_xlarge == <<"h", "t", "t", "p", "s", ":", "/", "/", "h", ".", "o", "r", "g", "/", "X", "-", "L", "a", "r", "g", "e">>
V_pathEsc == <<"h", "t", "t", "p", "s", ":", "/", "/", "h", ".", "o", "r", "g", "/", "a", "%", "2", "0", "b">>
V_frag == <<"h", "t", "t", "p", "s", ":", "/", "/", "h", ".", "o", "r", "g", "/", "p", "#", "f">>
V_userinfo == <<"h", "t", "t", "p", ":", "/", "/", "u", "@", "h", ".", "o", "r", "g", "/", "p">>
V_badEscape == <<"h", "t", "t", "p", ":", "/", "/", "h", ".", "o", "r", "g", "/", "%", "z", "z">>
V_badPort == <<"h", "t", "t", "p", ":", "/", "/", "h", ".", "o", "r", "g", ":", "8", "x", "/", "p">>
V_port == <<"h", "t", "t", "p", ":", "/", "/", "h", ".", "o", "r", "g", ":", "8", "0", "/", "p", "?", "a", "=", "1">>
V_noColonSp == <<"N", "o", " ", "C", "o", "l", "o", "n">>
V_abc == <<"a", "b", "c">>

V_ftp == <<"f", "t", "p", ":", "/", "/", "h", ".", "o", "r", "g", "/", "f">>
V_schemeOnly == <<"h", "t", "t", "p", ":", "/", "/">>
V_www == <<"w", "w", "w", ".", "h", ".", "o", "r", "g">>
V_ref == <<"r", "e", "f">>

A_XPost == Arg("method", S_X, "bare", V_POST)
A_Xput == Arg("method", S_X, "bare", V_put)
A_RequestDelete == Arg("method", S_request, "bare", V_DELETE)

A_HAccept == Arg("header", S_H, "dq", V_Accept)
A_HXIdSq == Arg("header", S_H, "sq", V_XId_ab)
A_HXIdBare == Arg("header", S_header, "bare", V_XId_7)
A_HXIdDq == Arg("header", S_H, "dq", V_XId_q)
A_HPadded == Arg("header", S_H, "dq", V_AcceptPadded)
A_HXdata == Arg("header", S_header, "sq", V_Xdata)
A_HNoColon == Arg("header", S_H, "sq", V_NoColon)

A_HNoColonBare == Arg("header", S_header, "bare", V_NoColon)
A_HNoColonDq == Arg("header", S_H, "dq", V_noColonSp)
A_HEmpty == Arg("header", S_H, "sq", <<>>)
A_DataSq == Arg("data", S_d, "sq", V_json)
A_DataDq == Arg("data", S_data, "dq", V_kv)
A_DataBare == Arg("data", S_d, "bare", V_x1)
A_RawSq == Arg("dataraw", S_dataraw, "sq", V_jsonSp)
A_RawDq == Arg("dataraw", S_dataraw, "dq", V_raw)
A_RawBare == Arg("dataraw", S_dataraw, "bare", V_r1)

A_FormDq == Arg("form", S_F, "dq", V_a1)
A_FormSq == Arg("form", S_form, "sq", V_b2)
A_FormBare == Arg("form", S_F, "bare", V_c3)

A_RefererDq == Arg("referer", S_referer, "dq", V_google)
A_RefererBare == Arg("referer", S_referer, "bare", V_ref)
A_RefererQuery == Arg("referer", S_referer, "dq", V_refQuery)
A_CookieSq == Arg("cookie", S_b, "sq", V_ckXY)
A_CookieDq == Arg("cookie", S_cookie, "dq", V_ckDup)
A_CookieBare == Arg("cookie", S_b, "bare", V_ckBare)
A_CookieEmpty == Arg("cookie", S_b, "sq", <<>>)
A_HCookie == Arg("header", S_H, "dq", V_HCookie)
A_HcookieLower == Arg("header", S_header, "sq", V_Hcookie)
A_ProxyBare == Arg("proxy", S_proxy, "bare", V_p80)
A_UserAgentBare == Arg("useragent", S_A, "bare", V_ua1)
A_UserAgentDq == Arg("useragent", S_A, "dq", V_uaParen)
A_UserAgentSq == Arg("useragent", S_userAgent, "sq", V_uaHyphen)
A_AuthBare == Arg("auth", S_user, "bare", V_up)
A_AuthDq == Arg("auth", S_u, "dq", V_upHyphen)
A_CacertBare == Arg("cacert", S_cacert, "bare", V_capem)
A_CacertSq == Arg("cacert", S_cacert, "sq", V_caPadded)
A_JarBare == Arg("cookiejar", S_c, "bare", V_ctxt)
A_JarDq == Arg("cookiejar", S_cookieJar, "dq", V_jarSpace)
A_Location == Arg("flag", S_location, "none", <<>>)
A_Connect30 == Arg("timeout", S_connectTimeout, "bare", V_30)
A_MaxTime60 == Arg("timeout", S_maxTime, "bare", V_60)
A_MaxTime007 == Arg("timeout", S_maxTime, "bare", V_007)
A_ConnectOverflow == Arg("timeout", S_connectTimeout, "bare", V_20nines)
A_MaxTimeXs == Arg("timeout", S_maxTime, "bare", V_xs)
A_L == Arg("flag", S_L, "none", <<>>)
A_Insecure == Arg("flag", S_insecure, "none", <<>>)
A_ProxyDq == Arg("proxy", S_proxy, "dq", V_proxy)

A_UrlGet == Arg("url", <<>>, "bare", V_get)
A_UrlQuery == Arg("url", <<>>, "sq", V_query)
A_UrlMyDomain == Arg("url", <<>>, "bare", V_mydomain)
A_UrlRepeat == Arg("url", <<>>, "bare", V_repeat)
A_UrlEscaped == Arg("url", <<>>, "dq", V_escaped)
A_UrlXLarge == Arg("url", <<>>, "bare", V_xlarge)
A_UrlNoPath == Arg("url", <<>>, "dq", V_nopath)

A_UrlGetDq == Arg("url", <<>>, "dq", V_get)
A_UrlGetSq == Arg("url", <<>>, "sq", V_get)
A_UrlPathEsc == Arg("url", <<>>, "bare", V_pathEsc)
A_UrlFrag == Arg("url", <<>>, "sq", V_frag)
A_UrlUserinfo == Arg("url", <<>>, "bare", V_userinfo)
A_UrlBadEscape == Arg("url", <<>>, "dq", V_badEscape)
A_UrlBadPort == Arg("url", <<>>, "bare", V_badPort)
A_UrlPort == Arg("url", <<>>, "sq", V_port)

\* malformed arguments: a timeout without digits, an unbalanced quote, an
\* option with no value; and words that are no http(s) address
A_TimeoutAbc == Arg("junk", S_connectTimeout, "bare", V_abc)
A_OpenQuote == Arg("junk", S_d, "open", V_abc)
A_HNoValue == Arg("junk", S_H, "none", <<>>)
A_Ftp == Arg("junk", V_ftp, "none", <<>>)
A_SchemeOnly == Arg("junk", V_schemeOnly, "none", <<>>)
A_Www == Arg("junk", V_www, "none", <<>>)

UrlArgs == {A_UrlGet, A_UrlQuery, A_UrlMyDomain, A_UrlNoPath}

JunkArgs == {A_TimeoutAbc, A_OpenQuote, A_HNoValue, A_Ftp, A_SchemeOnly, A_Www}

AllArgs ==
  {A_XPost, A_RequestDelete, A_HAccept, A_HXdata, A_HNoColon,
   A_DataSq, A_DataBare, A_RawSq, A_RawDq, A_FormDq, A_FormBare,
   A_RefererDq, A_ProxyDq} \cup UrlArgs \cup JunkArgs

BodyArgs ==
  {A_FormDq, A_FormSq, A_FormBare, A_DataSq, A_DataDq, A_DataBare, A_RawSq,
   A_Xput, A_RequestDelete, A_UrlGet, A_UrlMyDomain}

HeaderArgs ==
  {A_HAccept, A_HXIdSq, A_HXIdBare, A_HXIdDq, A_HPadded, A_HXdata, A_HNoColon,
   A_DataSq, A_XPost, A_UrlGet, A_UrlQuery}

LineArgs == {A_RefererBare, A_XPost, A_DataBare, A_HAccept, A_UrlGet}

QueryArgs ==
  {A_UrlGet, A_UrlQuery, A_UrlRepeat, A_UrlEscaped, A_RefererDq, A_RefererQuery,
   A_HAccept, A_XPost}

CookieArgs ==
  {A_CookieSq, A_CookieDq, A_CookieBare, A_CookieEmpty, A_HCookie, A_HcookieLower, A_XPost,
   A_UrlGet, A_UrlNoPath}

AuxArgs ==
  {A_UserAgentBare, A_AuthBare, A_RefererBare, A_ProxyBare, A_CacertBare, A_JarBare,
   A_CookieBare, A_XPost, A_Location, A_UrlGet, A_UrlNoPath}

QuotedArgs ==
  {A_UserAgentDq, A_UserAgentSq, A_AuthDq, A_RefererDq, A_ProxyDq, A_CacertSq, A_JarDq,
   A_XPost, A_UrlGet, A_UrlNoPath}

TimeoutArgs ==
  {A_Connect30, A_MaxTime60, A_MaxTime007, A_ConnectOverflow, A_MaxTimeXs, A_TimeoutAbc,
   A_RawSq, A_RefererBare, A_UrlGet, A_UrlNoPath}

FlagArgs ==
  {A_L, A_Location, A_Insecure, A_HAccept, A_UserAgentDq, A_UrlGet, A_UrlXLarge,
   A_UrlNoPath}

AddressArgs ==
  {A_UrlGet, A_UrlGetDq, A_UrlGetSq, A_UrlQuery, A_UrlNoPath, A_UrlPort, A_UrlPathEsc,
   A_UrlFrag, A_UrlUserinfo, A_UrlBadEscape, A_UrlBadPort, A_RefererDq, A_HAccept,
   A_DataSq, A_SchemeOnly}

PaddedArgs ==
  {A_RefererBare, A_UserAgentBare, A_RawSq, A_HAccept, A_XPost, A_UrlGet, A_UrlNoPath,
   A_UrlMyDomain, A_UrlXLarge}

\* whitespace before and after a command
Padding == {<<>>, <<" ">>, <<"\t", NL>>}

NoColonArgs ==
  {A_HNoColon, A_HNoColonBare, A_HNoColonDq, A_HEmpty, A_HAccept, A_HXIdBare, A_UrlGet}

CallArgs ==
  {A_UrlRepeat, A_UrlGet, A_HCookie, A_CookieSq, A_DataSq, A_UserAgentDq, A_Ftp}

MaxArgs == 2
MaxBodyArgs == 3
MaxHeaderArgs == 3
MaxLineArgs == 3
MaxQueryArgs == 3
MaxCookieArgs == 3
MaxAuxArgs == 3
MaxQuotedArgs == 3
MaxTimeoutArgs == 3
MaxFlagArgs == 3
MaxAddressArgs == 2
MaxPaddedArgs == 2
MaxNoColonArgs == 3
MaxCallArgs == 2

SeqsUpTo(S, n) == UNION {[1..k -> S] : k \in 0..n}

(***************************************************************************)
(* State: the parser built by NewCurlParser (its command text), and what   *)
(* Parse returned                                                          *)
(***************************************************************************)
NotCalled == [nil |-> FALSE]

\* one parser and one caller: no further instances, no calls in progress
OneCaller == parsers = <<>> /\ calls = <<>> /\ heap = <<>>

InitOver(lists, seps) ==
  /\ args \in lists
  /\ \E sep \in seps : curlCommand = Render(args, sep)
  /\ req = NotCalled
  /\ err = NoError
  /\ pc = "constructed"
  /\ OneCaller

Init == InitOver(SeqsUpTo(AllArgs, MaxArgs), {SepSpace})

InitBody == InitOver(SeqsUpTo(BodyArgs, MaxBodyArgs), {SepSpace})

InitHeaders == InitOver(SeqsUpTo(HeaderArgs, MaxHeaderArgs), {SepSpace})

InitLines == InitOver(SeqsUpTo(LineArgs, MaxLineArgs), {SepSpace, SepContinuation})

InitQuery == InitOver(SeqsUpTo(QueryArgs, MaxQueryArgs), {SepSpace})

InitCookies == InitOver(SeqsUpTo(CookieArgs, MaxCookieArgs), {SepSpace})

InitAux == InitOver(SeqsUpTo(AuxArgs, MaxAuxArgs), {SepSpace})

InitQuoted == InitOver(SeqsUpTo(QuotedArgs, MaxQuotedArgs), {SepSpace})

InitTimeouts == InitOver(SeqsUpTo(TimeoutArgs, MaxTimeoutArgs), {SepSpace})

InitFlags == InitOver(SeqsUpTo(FlagArgs, MaxFlagArgs), {SepSpace})

InitAddress == InitOver(SeqsUpTo(AddressArgs, MaxAddressArgs), {SepSpace})

InitNoColon == InitOver(SeqsUpTo(NoColonArgs, MaxNoColonArgs), {SepSpace})

\* commands with and without the "curl " keyword, with whitespace around them
InitPadded ==
  /\ args \in SeqsUpTo(PaddedArgs, MaxPaddedArgs)
  /\ \E pre \in Padding, post \in Padding, keyword \in {S_curl, <<>>} :
       curlCommand = pre \o keyword \o RenderArgs(args, SepSpace) \o post
  /\ req = NotCalled
  /\ err = NoError
  /\ pc = "constructed"
  /\ OneCaller

Parse ==
  /\ pc = "constructed"
  /\ req' = ParseResult(curlCommand).req
  /\ err' = ParseResult(curlCommand).err
  /\ pc' = "parsed"
  /\ UNCHANGED <<args, curlCommand, parsers, calls, heap>>

Next == Parse

Spec == Init /\ [][Next]_vars

SpecBody == InitBody /\ [][Next]_vars

SpecHeaders == InitHeaders /\ [][Next]_vars

SpecLines == InitLines /\ [][Next]_vars

SpecQuery == InitQuery /\ [][Next]_vars

SpecCookies == InitCookies /\ [][Next]_vars

SpecAux == InitAux /\ [][Next]_vars

SpecQuoted == InitQuoted /\ [][Next]_vars

SpecTimeouts == InitTimeouts /\ [][Next]_vars

SpecFlags == InitFlags /\ [][Next]_vars

SpecAddress == InitAddress /\ [][Next]_vars

SpecPadded == InitPadded /\ [][Next]_vars

SpecNoColon == InitNoColon /\ [][Next]_vars

(***************************************************************************)
(* Several callers.  parsers[p] is the curlCommand field of instance p,    *)
(* calls[c] the locals of call c of Parse (its position, its receiver, cmd *)
(* and the record req points to), heap the maps made by make: a record     *)
(* holds its Headers, Query and ParsedCookies as references into heap.     *)
(* One step is the code between two accesses to what callers could share.  *)
(***************************************************************************)
Instances == {1, 2}
Callers == {1, 2}

NoCall == [pc |-> "idle", self |-> 0, cmd |-> <<>>, req |-> NilRequest, err |-> NoError]

\* &HTTPRequest{Headers: h, Query: q, ParsedCookies: k}
NewRequest(h, q, k) ==
  [Method |-> <<>>, URL |-> <<>>, BaseURL |-> <<>>, Path |-> <<>>, Headers |-> h,
   Body |-> <<>>, Query |-> q, RawCookie |-> <<>>, ParsedCookies |-> k,
   Referer |-> <<>>, Proxy |-> <<>>, UserAgent |-> <<>>, Auth |-> <<>>,
   ConnectTimeout |-> 0, MaxTime |-> 0, Insecure |-> FALSE, CACert |-> <<>>,
   CookieJar |-> <<>>, FollowRedirects |-> FALSE]

\* the assignments m[key] = value for every key of written, made on the map m
Assign(m, written) ==
  [key \in DOMAIN m \cup DOMAIN written |->
     IF key \in DOMAIN written THEN written[key] ELSE m[key]]

\* the orders in which range may visit the keys of a map
Orders(keys) ==
  {order \in [1..Cardinality(keys) -> keys] :
     \A i, j \in 1..Cardinality(keys) : order[i] = order[j] => i = j}

\* the range loop that stops after its first iteration
RECURSIVE QueryRange_FirstOnly(_, _, _, _)
QueryRange_FirstOnly(query, order, i, m) ==
  IF i > Len(order) \/ i > 1 THEN m
  ELSE QueryRange_FirstOnly(query, order, i + 1, MapPut(m, order[i], query[order[i]][1]))

\* for key, values := range query { req.Query[key] = values[0] }, the keys
\* visited in the given order
RECURSIVE QueryRange(_, _, _, _)
QueryRange(query, order, i, m) ==
  IF i > Len(order) THEN m
  ELSE QueryRange(query, order, i + 1, MapPut(m, order[i], query[order[i]][1]))

\* parsedURL.Query() of the record's URL, nothing when url.Parse fails
QueryValues(u) ==
  IF urlParse(u).err THEN EmptyMap ELSE ParseQuery(urlParse(u).RawQuery, EmptyMap)

InitCalls ==
  /\ args \in SeqsUpTo(CallArgs, MaxCallArgs)
  /\ curlCommand = Render(args, SepSpace)
  /\ req = NotCalled
  /\ err = NoError
  /\ pc = "constructed"
  /\ parsers = [p \in Instances |-> curlCommand]
  /\ calls = [c \in Callers |-> NoCall]
  /\ heap = <<>>

\* a Begin that uses one set of maps, made by the first call, for every record
Begin_SharedMaps(c, p) ==
  /\ calls[c].pc = "idle"
  /\ heap' = IF heap = <<>> THEN <<EmptyMap, EmptyMap, EmptyMap>> ELSE heap
  /\ calls' = [calls EXCEPT ![c] = [pc |-> "url", self |-> p,
                                     cmd |-> StripCurl(parsers[p]),
                                     req |-> NewRequest(1, 2, 3), err |-> NoError]]
  /\ UNCHANGED <<args, curlCommand, req, err, pc, parsers>>

\* call c of Parse on instance p: the record and its maps are made, cmd is
\* the stored text without the keyword
Begin(c, p) ==
  /\ calls[c].pc = "idle"
  /\ heap' = heap \o <<EmptyMap, EmptyMap, EmptyMap>>
  /\ calls' = [calls EXCEPT ![c] = [pc |-> "url", self |-> p,
                                     cmd |-> StripCurl(parsers[p]),
                                     req |-> NewRequest(Len(heap) + 1, Len(heap) + 2,
                                                        Len(heap) + 3),
                                     err |-> NoError]]
  /\ UNCHANGED <<args, curlCommand, req, err, pc, parsers>>

\* the call after extractURL gave u and url.Parse gave parsed
AfterURL(call, u, parsed) ==
  IF u.err # NoError
    THEN [call EXCEPT !.pc = "done", !.req = NilRequest, !.err = u.err]
    ELSE [call EXCEPT !.pc = "fields",
                      !.req.URL = u.url,
                      !.req.BaseURL = IF parsed.err THEN <<>>
                                      ELSE parsed.Scheme \o S_css \o parsed.Host,
                      !.req.Path = parsed.Path]

\* extractURL and url.Parse: the error return, or URL, BaseURL and Path
StepURL(c) ==
  /\ calls[c].pc = "url"
  /\ calls' = [calls EXCEPT ![c] = AfterURL(@, extractURL(@.cmd),
                                            urlParse(extractURL(@.cmd).url))]
  /\ UNCHANGED <<args, curlCommand, req, err, pc, parsers, heap>>

\* extractMethod, extractHeaders, extractBody
StepFields(c) ==
  /\ calls[c].pc = "fields"
  /\ calls' = [calls EXCEPT ![c].pc = "query",
                            ![c].req.Method = extractMethod(calls[c].cmd),
                            ![c].req.Body = extractBody(calls[c].cmd)]
  /\ heap' = [heap EXCEPT ![calls[c].req.Headers] =
                            Assign(@, extractHeaders(calls[c].cmd))]
  /\ UNCHANGED <<args, curlCommand, req, err, pc, parsers>>

\* extractQueryParams: the range over the values visits the keys in any order
StepQuery(c) ==
  /\ calls[c].pc = "query"
  /\ \E order \in Orders(DOMAIN QueryValues(calls[c].req.URL)) :
       heap' = [heap EXCEPT ![calls[c].req.Query] =
                              QueryRange(QueryValues(calls[c].req.URL), order, 1, @)]
  /\ calls' = [calls EXCEPT ![c].pc = "cookies"]
  /\ UNCHANGED <<args, curlCommand, req, err, pc, parsers>>

\* extractCookies: reads the receiver's curlCommand and the record's Headers
StepCookies(c) ==
  /\ calls[c].pc = "cookies"
  /\ calls' = [calls EXCEPT ![c].pc = "options",
                            ![c].req.RawCookie =
                              extractCookies(parsers[calls[c].self],
                                             heap[calls[c].req.Headers]).RawCookie]
  /\ heap' = [heap EXCEPT ![calls[c].req.ParsedCookies] =
                            Assign(@, extractCookies(parsers[calls[c].self],
                                                     heap[calls[c].req.Headers]).ParsedCookies)]
  /\ UNCHANGED <<args, curlCommand, req, err, pc, parsers>>

\* extractUserAgent .. extractFollowRedirects, and return req, nil
StepOptions(c) ==
  /\ calls[c].pc = "options"
  /\ calls' = [calls EXCEPT ![c].pc = "done",
                            ![c].req.UserAgent = extractUserAgent(calls[c].cmd),
                            ![c].req.Auth = extractAuth(calls[c].cmd),
                            ![c].req.Referer = extractReferer(calls[c].cmd),
                            ![c].req.Proxy = extractProxy(calls[c].cmd),
                            ![c].req.ConnectTimeout =
                              extractTimeout(connectTimeoutRegex, calls[c].cmd),
                            ![c].req.MaxTime = extractTimeout(maxTimeRegex, calls[c].cmd),
                            ![c].req.Insecure = extractInsecure(calls[c].cmd),
                            ![c].req.CACert = extractCACert(calls[c].cmd),
                            ![c].req.CookieJar = extractCookieJar(calls[c].cmd),
                            ![c].req.FollowRedirects = extractFollowRedirects(calls[c].cmd)]
  /\ UNCHANGED <<args, curlCommand, req, err, pc, parsers, heap>>

NextCalls ==
  \E c \in Callers :
    \/ \E p \in Instances : Begin(c, p)
    \/ StepURL(c)
    \/ StepFields(c)
    \/ StepQuery(c)
    \/ StepCookies(c)
    \/ StepOptions(c)

SpecCalls == InitCalls /\ [][NextCalls]_vars

(***************************************************************************)
(* What the caller wrote: the arguments of a command, read off args        *)
(***************************************************************************)
RECURSIVE OfKind(_, _)
OfKind(as, kinds) ==
  IF as = <<>> THEN <<>>
  ELSE (IF Head(as).kind \in kinds THEN <<Head(as)>> ELSE <<>>) \o OfKind(Tail(as), kinds)

RECURSIVE OfStyle(_, _)
OfStyle(as, styles) ==
  IF as = <<>> THEN <<>>
  ELSE (IF Head(as).style \in styles THEN <<Head(as)>> ELSE <<>>) \o OfStyle(Tail(as), styles)

WellFormed(as) == OfKind(as, {"junk"}) = <<>>

T_http == <<"h", "t", "t", "p", ":", "/", "/">>
T_https == <<"h", "t", "t", "p", "s", ":", "/", "/">>

\* neither "http://" nor "https://" occurs in the text
NoSchemeIn(text) == ~Contains(text, T_http) /\ ~Contains(text, T_https)

\* "http://" or "https://" followed by a character that is neither whitespace nor a quote
HasTarget(text) ==
  \E i \in 1..Len(text) : \E p \in {T_http, T_https} :
    /\ HasPrefixAt(text, p, i)
    /\ i + Len(p) <= Len(text)
    /\ text[i + Len(p)] \notin SpaceChars \cup {SQ, DQ}

\* the scheme and authority, and the path, of the addresses of UrlArgs
UrlBase(val) ==
  CASE val = V_get -> <<"h", "t", "t", "p", "s", ":", "/", "/", "h", ".", "o", "r", "g">>
    [] val = V_query -> <<"h", "t", "t", "p", "s", ":", "/", "/", "h", ".", "o", "r", "g">>
    [] val = V_mydomain -> <<"h", "t", "t", "p", "s", ":", "/", "/", "m", "y", "-", "d",
                             "o", "m", "a", "i", "n", ".", "o", "r", "g">>
    [] val = V_nopath -> <<"h", "t", "t", "p", ":", "/", "/", "h", ".", "o", "r", "g">>

UrlPath(val) ==
  CASE val = V_get -> <<"/", "g", "e", "t">>
    [] val = V_query -> <<"/", "p">>
    [] val = V_mydomain -> <<"/", "g", "e", "t">>
    [] val = V_nopath -> <<>>

\* the method words of the -X/--request arguments, upper-cased
MethodWord(val) ==
  CASE val = V_POST -> <<"P", "O", "S", "T">>
    [] val = V_put -> <<"P", "U", "T">>
    [] val = V_DELETE -> <<"D", "E", "L", "E", "T", "E">>

\* the name and the value the header arguments stand for; <<>> for a value
\* without a colon
HeaderPair(val) ==
  CASE val = V_Accept -> <<<<"A", "c", "c", "e", "p", "t">>, <<"a", "/", "b">>>>
    [] val = V_XId_ab -> <<<<"X", "-", "I", "d">>, <<"a", ":", "b">>>>
    [] val = V_XId_7 -> <<<<"X", "-", "I", "d">>, <<"7">>>>
    [] val = V_XId_q -> <<<<"X", "-", "I", "d">>, <<"q">>>>
    [] val = V_AcceptPadded -> <<<<"A", "c", "c", "e", "p", "t">>, <<"t", "e", "x", "t">>>>
    [] val = V_Xdata -> <<<<"X", "-", "d", "a", "t", "a">>, <<"1">>>>
    [] val = V_NoColon -> <<>>
    [] val = V_HCookie -> <<S_CookieName, <<"z", "=", "3">>>>
    [] val = V_Hcookie -> <<S_cookieName, <<"w", "=", "4">>>>

\* the header options in order, a later one replacing an earlier one of the same name
RECURSIVE HeadersOf(_, _)
HeadersOf(hs, acc) ==
  IF hs = <<>> THEN acc
  ELSE LET nv == HeaderPair(Head(hs).val)
       IN HeadersOf(Tail(hs),
                    IF nv = <<>> THEN acc
                    ELSE [x \in DOMAIN acc \cup {nv[1]} |->
                            IF x = nv[1] THEN nv[2] ELSE acc[x]])

ExpectedHeaders(as) == HeadersOf(OfKind(as, {"header"}), EmptyMap)

\* v1&v2&...&vn
RECURSIVE AmpJoin(_)
AmpJoin(as) ==
  IF as = <<>> THEN <<>>
  ELSE IF Len(as) = 1 THEN as[1].val
  ELSE as[1].val \o <<"&">> \o AmpJoin(Tail(as))

\* the body by the priority of the option forms
ExpectedBody(as) ==
  LET ds == OfKind(as, {"data"})
      sq == OfStyle(ds, {"sq"})
      dq == OfStyle(ds, {"dq"})
      bare == OfStyle(ds, {"bare"})
      raw == OfKind(as, {"dataraw"})
  IN IF sq # <<>> THEN sq[1].val
     ELSE IF dq # <<>> THEN dq[1].val
     ELSE IF raw # <<>> THEN raw[1].val
     ELSE IF bare # <<>> THEN bare[1].val
     ELSE AmpJoin(OfKind(as, {"form"}))

\* the query keys of the addresses of QueryArgs, each with its first value
QueryOf(val) ==
  CASE val = V_get -> EmptyMap
    [] val = V_query -> (<<"a">> :> <<"1">>)
    [] val = V_repeat -> (<<"a">> :> <<"1">>) @@ (<<"b">> :> <<"3">>)
    [] val = V_escaped -> (<<"q">> :> <<"x", " ", "y">>) @@ (<<"e">> :> <<"=">>)

\* the cookie strings of the commands of CookieArgs: the option values, the
\* header values, and an unquoted value that ran into a quoted address
CookieStrings ==
  {V_ckXY, V_ckDup, V_ckBare, <<"z", "=", "3">>, <<"w", "=", "4">>,
   <<"s", "=", "1", ";", "t", "=", "2", " ", "\"", "h", "t", "t", "p", ":", "/", "/", "h", ".", "o", "r", "g", "\"">>}

\* the cookies they stand for
CookiesOf(c) ==
  CASE c = V_ckXY -> (<<"x">> :> <<"1">>) @@ (<<"y">> :> <<"2">>)
    [] c = V_ckDup -> (<<"n">> :> <<"w", "=", "%", "2", "0">>)
    [] c = V_ckBare -> (<<"s">> :> <<"1">>) @@ (<<"t">> :> <<"2">>)
    [] c = <<"z", "=", "3">> -> (<<"z">> :> <<"3">>)
    [] c = <<"w", "=", "4">> -> (<<"w">> :> <<"4">>)
    [] c = <<"s", "=", "1", ";", "t", "=", "2", " ", "\"", "h", "t", "t", "p", ":", "/", "/", "h", ".", "o", "r", "g", "\"">>
         -> (<<"s">> :> <<"1">>) @@ (<<"t">> :> <<"2", " ", "\"", "h", "t", "t", "p", ":", "/", "/", "h", ".", "o", "r", "g", "\"">>)

\* the field of the record that an option of a given kind sets
FieldOf(r, kind) ==
  CASE kind = "cookie" -> r.RawCookie
    [] kind = "useragent" -> r.UserAgent
    [] kind = "auth" -> r.Auth
    [] kind = "referer" -> r.Referer
    [] kind = "proxy" -> r.Proxy
    [] kind = "cacert" -> r.CACert
    [] kind = "cookiejar" -> r.CookieJar

\* the quoted values of QuotedArgs without their surrounding whitespace
TrimmedOf(val) == IF val = V_caPadded THEN <<"/", "c", " ", "a", ".", "p", "e", "m">> ELSE val

\* the arguments written with one of the given option names
RECURSIVE WithOpt(_, _)
WithOpt(as, opts) ==
  IF as = <<>> THEN <<>>
  ELSE (IF Head(as).opt \in opts THEN <<Head(as)>> ELSE <<>>) \o WithOpt(Tail(as), opts)

\* the number of seconds the timeout values of TimeoutArgs denote
SecondsOf(val) ==
  CASE val = V_30 -> 30
    [] val = V_60 -> 60
    [] val = V_007 -> 7

\* the timeout values that cannot be converted to an integer
Unconvertible == {V_abc, V_xs, V_20nines}

TimeoutField(r, opt) == IF opt = S_connectTimeout THEN r.ConnectTimeout ELSE r.MaxTime

\* the arguments without the i-th
Without(as, i) == SubSeq(as, 1, i - 1) \o SubSeq(as, i + 1, Len(as))

\* the first position of url after "://" that holds "/", "?" or "#", else
\* the position after its end
AuthorityEnd(url) ==
  LET start == Index(url, ":") + 3
      ends == {i \in start..Len(url) : url[i] \in {"/", "?", "#"}} \cup {Len(url) + 1}
  IN CHOOSE i \in ends : \A j \in ends : i <= j

SchemeAuthority(url) == SubSeq(url, 1, AuthorityEnd(url) - 1)

\* "?" and the query of url, nothing when url has no "?"
QueryString(url) ==
  LET noFrag == Before(url, "#")
  IN IF Index(noFrag, "?") = 0 THEN <<>>
     ELSE SubSeq(noFrag, Index(noFrag, "?"), Len(noFrag))

HasNoPath(url) == AuthorityEnd(url) > Len(url) \/ url[AuthorityEnd(url)] # "/"

\* no fragment, no user information, no percent escape before the query
PlainAddress(url) ==
  /\ Index(url, "#") = 0
  /\ Index(SchemeAuthority(url), "@") = 0
  /\ Index(Before(url, "?"), "%") = 0

\* the addresses of AddressArgs that url.Parse rejects: an escape that is not
\* two hexadecimal digits, a port that is not a number
RejectedAddresses == {V_badEscape, V_badPort}

\* "http://" or "https://" and a character that is neither whitespace nor a
\* quote, at position i of the text
TargetAt(text, i) ==
  \E p \in {T_http, T_https} :
    /\ HasPrefixAt(text, p, i)
    /\ i + Len(p) <= Len(text)
    /\ text[i + Len(p)] \notin SpaceChars \cup {SQ, DQ}

\* the text from position i up to the next whitespace or quote
WordFrom(text, i) ==
  LET stops == {j \in i..Len(text) : text[j] \in SpaceChars \cup {SQ, DQ}}
                 \cup {Len(text) + 1}
  IN SubSeq(text, i, (CHOOSE j \in stops : \A k \in stops : j <= k) - 1)

\* the leftmost target address of the text
FirstTarget(text) ==
  LET starts == {i \in 1..Len(text) : TargetAt(text, i)}
  IN WordFrom(text, CHOOSE i \in starts : \A k \in starts : i <= k)

\* a record without the fields that come from the address
OtherFields(r) ==
  [r EXCEPT !.URL = <<>>, !.BaseURL = <<>>, !.Path = <<>>, !.Query = EmptyMap]

\* the index of the first argument that holds an address
FirstAddressArg(as) ==
  CHOOSE i \in 1..Len(as) :
    /\ as[i].kind \in {"url", "referer"}
    /\ \A j \in 1..(i - 1) : as[j].kind \notin {"url", "referer"}

\* the segments of a cookie string: the texts between its ";"
Segments(c) ==
  {SubSeq(c, ab[1], ab[2]) : ab \in
     {ab \in (1..(Len(c) + 1)) \X (0..Len(c)) :
        /\ ab[1] <= ab[2] + 1
        /\ (ab[1] = 1 \/ c[ab[1] - 1] = ";")
        /\ (ab[2] = Len(c) \/ c[ab[2] + 1] = ";")
        /\ \A k \in ab[1]..ab[2] : c[k] # ";"}}

Returned == pc = "parsed" /\ err = NoError

(***************************************************************************)
(* Claims                                                                  *)
(***************************************************************************)

\* C1: an input that contains neither "http://" nor "https://" makes Parse
\* return an error and the nil record; an error never comes with a record.
C1_NoAddressFails ==
  pc = "parsed" =>
    /\ NoSchemeIn(curlCommand) => err # NoError
    /\ err # NoError => req = NilRequest

C1_Witness ==
  /\ pc = "parsed"
  /\ NoSchemeIn(curlCommand)
  /\ Len(args) = MaxArgs
  /\ \E i \in 1..Len(args) : args[i] = A_Ftp
  /\ err = ErrNoURL
  /\ req = NilRequest

\* C2: when the input holds a target address ("http://" or "https://" followed
\* by a character that is neither whitespace nor a quote) Parse returns a
\* record and no error, whatever else the text contains.
C2_TargetFoundSucceeds ==
  (pc = "parsed" /\ HasTarget(curlCommand)) =>
    /\ err = NoError
    /\ req # NilRequest
    /\ req.URL # <<>>

C2_Witness ==
  /\ pc = "parsed"
  /\ HasTarget(curlCommand)
  /\ \E i \in 1..Len(args) :
       args[i] \in {A_TimeoutAbc, A_OpenQuote, A_HNoValue, A_HNoColon}
  /\ err = NoError
  /\ req # NilRequest

\* C3: a quoted http(s) address given as the value of --referer or --proxy and
\* followed by the target address: URL, BaseURL and Path are those of the
\* target address, Referer / Proxy is the quoted value.
C3_TargetAfterOptionAddress ==
  \A i, j \in 1..Len(args) :
    ( /\ pc = "parsed"
      /\ WellFormed(args)
      /\ i < j
      /\ args[i].kind \in {"referer", "proxy"}
      /\ args[i].style \in {"sq", "dq"}
      /\ HasTarget(args[i].val)
      /\ args[j].kind = "url"
      /\ Len(OfKind(args, {"url"})) = 1 )
    => /\ err = NoError
       /\ req # NilRequest
       /\ req.URL = args[j].val
       /\ req.BaseURL = UrlBase(args[j].val)
       /\ req.Path = UrlPath(args[j].val)
       /\ args[i].kind = "referer" => req.Referer = args[i].val
       /\ args[i].kind = "proxy" => req.Proxy = args[i].val

\* C4: Method is the upper-cased word of a -X/--request option when there is
\* one; otherwise POST when a data or form option is present; otherwise GET.
C4_MethodPrecedence ==
  (Returned /\ WellFormed(args)) =>
    LET ms == OfKind(args, {"method"})
    IN IF ms # <<>>
         THEN \E i \in 1..Len(ms) : req.Method = MethodWord(ms[i].val)
       ELSE IF OfKind(args, {"data", "dataraw", "form"}) # <<>>
         THEN req.Method = S_POST
       ELSE req.Method = S_GET

\* C5: a command with no -X/--request option and no data or form option has
\* Method GET, whatever its target address and its other option values hold.
C5_DefaultGet ==
  ( /\ Returned
    /\ WellFormed(args)
    /\ OfKind(args, {"method", "data", "dataraw", "form"}) = <<>> )
  => req.Method = S_GET

\* strings.ReplaceAll(s, old, new), old non-empty
RECURSIVE ReplaceAll(_, _, _)
ReplaceAll(s, old, new) ==
  IF s = <<>> THEN <<>>
  ELSE IF HasPrefix(s, old)
    THEN new \o ReplaceAll(SubSeq(s, Len(old) + 1, Len(s)), old, new)
  ELSE <<Head(s)>> \o ReplaceAll(Tail(s), old, new)

\* the command with every continuation marker (backslash, newline) replaced by a space
JoinedLines(command) == ReplaceAll(command, <<BSL, NL>>, <<" ">>)

\* C6: a command written over several lines with backslash-newline markers
\* parses to the record of the same command with each marker replaced by a
\* single space.
C6_ContinuationAsSpace ==
  pc = "parsed" =>
    /\ req = ParseResult(JoinedLines(curlCommand)).req
    /\ err = ParseResult(JoinedLines(curlCommand)).err

\* C7: Body is the first single-quoted -d/--data value, else the first
\* double-quoted one, else the --data-raw value, else the first unquoted
\* -d/--data value, else the form values joined, else empty; a lower-priority
\* form adds nothing once a higher one matched.
C7_BodyPriority ==
  (Returned /\ WellFormed(args)) => req.Body = ExpectedBody(args)

\* C8: with one or more -F/--form options and no data option, Body is the form
\* values as written, in their order in the command, joined with "&", and
\* Method is POST unless -X/--request is given.
C8_FormBody ==
  ( /\ Returned
    /\ OfKind(args, {"form"}) # <<>>
    /\ OfKind(args, {"data", "dataraw"}) = <<>> )
  => /\ req.Body = AmpJoin(OfKind(args, {"form"}))
     /\ OfKind(args, {"method"}) = <<>> => req.Method = S_POST

C8_Witness ==
  /\ Returned
  /\ Len(OfKind(args, {"form"})) >= 2
  /\ OfKind(args, {"data", "dataraw", "method"}) = <<>>
  /\ \E i \in 1..Len(args) : args[i] = A_UrlMyDomain
  /\ req.Body = AmpJoin(OfKind(args, {"form"}))
  /\ req.Method = S_POST

\* C9: --data-raw with a single- or double-quoted value v gives Body = v,
\* whether the option is the last item of the command or is followed by the
\* target address or other options.
C9_DataRawQuoted ==
  \A i \in 1..Len(args) :
    ( /\ Returned
      /\ WellFormed(args)
      /\ args[i].kind = "dataraw"
      /\ args[i].style \in {"sq", "dq"}
      /\ Len(OfKind(args, {"data", "dataraw", "form"})) = 1 )
    => req.Body = args[i].val

\* C10: Headers maps, for every -H/--header option whose value holds a colon,
\* the trimmed text before the first colon to the trimmed text after it (for a
\* name given twice, the option that comes last), keeps the name's case, and
\* has no other key.
C10_HeadersFromOptions ==
  Returned => req.Headers = ExpectedHeaders(args)

C10_Witness ==
  /\ Returned
  /\ \E i, j \in 1..Len(args) :
       i < j /\ args[i] = A_HPadded /\ args[j] = A_HXIdSq
  /\ DOMAIN req.Headers = {<<"A", "c", "c", "e", "p", "t">>, <<"X", "-", "I", "d">>}
  /\ req.Headers[<<"A", "c", "c", "e", "p", "t">>] = <<"t", "e", "x", "t">>
  /\ req.Headers[<<"X", "-", "I", "d">>] = <<"a", ":", "b">>

\* C11: when several -H/--header options give the same header name, Headers
\* holds for that name the value of the option that stands last in the
\* command, whatever the quoting style of each of them.
C11_LastHeaderWins ==
  Returned =>
    \A i \in 1..Len(args) :
      ( /\ args[i].kind = "header"
        /\ HeaderPair(args[i].val) # <<>>
        /\ \A j \in (i + 1)..Len(args) :
             args[j].kind = "header" /\ HeaderPair(args[j].val) # <<>>
               => HeaderPair(args[j].val)[1] # HeaderPair(args[i].val)[1] )
      => /\ HeaderPair(args[i].val)[1] \in DOMAIN req.Headers
         /\ req.Headers[HeaderPair(args[i].val)[1]] = HeaderPair(args[i].val)[2]

C11_Witness ==
  /\ Returned
  /\ Len(args) = 3
  /\ args[1] = A_HXIdDq /\ args[2] = A_HXIdBare /\ args[3] = A_UrlGet
  /\ req.Headers[<<"X", "-", "I", "d">>] = <<"7">>

\* C12: Query holds, for every key of the target address's query string, the
\* value of the key's first occurrence, and no other key; it is empty when
\* the address has no query string.
C12_QueryFirstValue ==
  ( /\ Returned
    /\ Len(OfKind(args, {"url"})) = 1 )
    => req.Query = QueryOf(OfKind(args, {"url"})[1].val)

\* C13: with a cookie option of non-empty value and a header named Cookie in
\* one command, RawCookie and ParsedCookies come from the cookie option only,
\* and Headers still maps Cookie to the header's own value.
C13_CookieOptionWins ==
  ( /\ Returned
    /\ Len(OfKind(args, {"cookie"})) = 1
    /\ OfKind(args, {"cookie"})[1].val # <<>>
    /\ S_CookieName \in DOMAIN ExpectedHeaders(args) )
    => /\ req.RawCookie = OfKind(args, {"cookie"})[1].val
       /\ req.ParsedCookies = CookiesOf(OfKind(args, {"cookie"})[1].val)
       /\ S_CookieName \in DOMAIN req.Headers
       /\ req.Headers[S_CookieName] = ExpectedHeaders(args)[S_CookieName]

\* C14: when no cookie option yields a value, RawCookie is the value of the
\* header named Cookie if the command has one, else the value of the header
\* named cookie, wherever the header option stands in the command.
C14_HeaderFallback ==
  ( /\ Returned
    /\ \A i \in 1..Len(args) : args[i].kind = "cookie" => args[i].val = <<>> )
    => req.RawCookie =
         IF S_CookieName \in DOMAIN ExpectedHeaders(args)
           THEN ExpectedHeaders(args)[S_CookieName]
         ELSE IF S_cookieName \in DOMAIN ExpectedHeaders(args)
           THEN ExpectedHeaders(args)[S_cookieName]
         ELSE <<>>

C14_Witness ==
  /\ Returned
  /\ args = <<A_UrlNoPath, A_HcookieLower, A_HCookie>>
  /\ req.RawCookie = <<"z", "=", "3">>

\* C15: a cookie string that was obtained is RawCookie verbatim, and
\* ParsedCookies is its decomposition: split on ";", each segment trimmed and
\* cut at its first "=" into a trimmed name and a trimmed value, a segment
\* without "=" dropped, a later segment replacing an earlier one of the same
\* name, no percent-decoding.
C15_CookieDecomposition ==
  Returned =>
    /\ req.RawCookie \in CookieStrings => req.ParsedCookies = CookiesOf(req.RawCookie)
    /\ req.RawCookie = <<>> => req.ParsedCookies = EmptyMap
    /\ ( /\ Len(OfKind(args, {"cookie"})) = 1
         /\ OfKind(args, {"cookie"})[1].val # <<>>
         /\ OfKind(args, {"cookie"})[1].style \in {"sq", "dq"} )
         => req.RawCookie = OfKind(args, {"cookie"})[1].val

C15_Witness ==
  /\ Returned
  /\ \E i \in 1..Len(args) : args[i] = A_CookieDq
  /\ req.RawCookie = V_ckDup
  /\ req.ParsedCookies = (<<"n">> :> <<"w", "=", "%", "2", "0">>)

\* C16: an unquoted value v (no whitespace, not starting with "-") of
\* -b/--cookie, -A/--user-agent, -u/--user, --referer, --proxy, --cacert or
\* -c/--cookie-jar, followed by another option flag, by the target address or
\* by the end of input, is exactly the value of the option's field.
C16_UnquotedValue ==
  Returned =>
    \A i \in 1..Len(args) :
      ( /\ args[i].kind \in {"cookie", "useragent", "auth", "referer", "proxy",
                              "cacert", "cookiejar"}
        /\ args[i].style = "bare"
        /\ Len(OfKind(args, {args[i].kind})) = 1 )
      => FieldOf(req, args[i].kind) = args[i].val

\* C17: a single- or double-quoted value v of -A/--user-agent, -u/--user,
\* --referer, --proxy, --cacert or -c/--cookie-jar is, trimmed, the value of
\* the option's field, also when v holds spaces, semicolons, parentheses,
\* colons or hyphens; the field of an option that does not appear is empty.
C17_QuotedValue ==
  Returned =>
    \A kind \in {"useragent", "auth", "referer", "proxy", "cacert", "cookiejar"} :
      /\ ( /\ Len(OfKind(args, {kind})) = 1
           /\ OfKind(args, {kind})[1].style \in {"sq", "dq"} )
           => FieldOf(req, kind) = TrimmedOf(OfKind(args, {kind})[1].val)
      /\ OfKind(args, {kind}) = <<>> => FieldOf(req, kind) = <<>>

C19_BadTimeoutIgnored ==
  pc = "parsed" =>
    \A i \in 1..Len(args) :
      ( /\ args[i].opt \in {S_connectTimeout, S_maxTime}
        /\ args[i].val \in Unconvertible
        /\ Len(WithOpt(args, {args[i].opt})) = 1
        /\ OfKind(args, {"url"}) # <<>> )
      => /\ err = NoError
         /\ TimeoutField(req, args[i].opt) = 0
         /\ req = ParseResult(Render(Without(args, i), SepSpace)).req

\* C20: FollowRedirects is true only if -L or --location is an option of the
\* command, and Insecure only if --insecure is; without these options both
\* are false, whatever the target address and the other option values hold.
C20_BooleanDefaults ==
  Returned =>
    /\ req.FollowRedirects => WithOpt(args, {S_L, S_location}) # <<>>
    /\ req.Insecure => WithOpt(args, {S_insecure}) # <<>>

Outcome(c) ==
  IF calls[c].err # NoError THEN [req |-> NilRequest, err |-> calls[c].err]
  ELSE [req |-> [calls[c].req EXCEPT !.Headers = heap[@], !.Query = heap[@],
                                     !.ParsedCookies = heap[@]],
        err |-> NoError]

BothDone == \A c \in Callers : calls[c].pc = "done"

\* C22: two Parse calls on the same input string, on one instance or on two
\* instances built from it, both return an error or return records equal field
\* for field, the contents of Headers, Query and ParsedCookies included.
C22_SameInputSameRecord ==
  BothDone =>
    \/ \A c \in Callers : calls[c].err # NoError
    \/ /\ \A c \in Callers : calls[c].err = NoError
       /\ \A c, d \in Callers : Outcome(c).req = Outcome(d).req

\* two calls on two instances returned a record with two query parameters and
\* a cookie
C22_Witness ==
  /\ BothDone
  /\ calls[1].self # calls[2].self
  /\ calls[1].err = NoError
  /\ Cardinality(DOMAIN Outcome(1).req.Query) = 2
  /\ DOMAIN Outcome(2).req.ParsedCookies # {}

\* C23: whitespace before and after the command text changes nothing: Parse
\* returns what it returns for the text without it.
C23_PaddingIgnored ==
  pc = "parsed" =>
    /\ req = ParseResult(TrimSpace(curlCommand)).req
    /\ err = ParseResult(TrimSpace(curlCommand)).err

C25_AddressOnly ==
  /\ pc = "parsed"
  /\ Len(args) = 1
  /\ args[1].kind = "url"
  /\ curlCommand \in {Render(args, SepSpace), RenderArgs(args, SepSpace)}
  => /\ err = NoError
     /\ req.Method = S_GET
     /\ req.URL = args[1].val
     /\ req.Headers = EmptyMap /\ req.Query = EmptyMap /\ req.ParsedCookies = EmptyMap
     /\ req.Body = <<>> /\ req.RawCookie = <<>>
     /\ \A kind \in {"useragent", "auth", "referer", "proxy", "cacert", "cookiejar"} :
          FieldOf(req, kind) = <<>>
     /\ req.ConnectTimeout = 0 /\ req.MaxTime = 0
     /\ ~req.Insecure /\ ~req.FollowRedirects
     /\ req = ParseResult(Render(args, SepSpace)).req
     /\ req = ParseResult(RenderArgs(args, SepSpace)).req

\* C26: a -H/--header option whose value has no colon adds no entry to
\* Headers and raises no error; Headers is what the command without that
\* option gives.
C26_NoColonDiscarded ==
  pc = "parsed" =>
    /\ err # NoError => OfKind(args, {"url"}) = <<>>
    /\ err = NoError =>
         \A i \in 1..Len(args) :
           args[i].kind = "header" /\ Index(args[i].val, ":") = 0 =>
             /\ TrimSpace(args[i].val) \notin DOMAIN req.Headers
             /\ req.Headers = ParseResult(Render(Without(args, i), SepSpace)).req.Headers

C26_Witness ==
  /\ Returned
  /\ args = <<A_HXIdBare, A_HNoColonBare, A_UrlGet>>
  /\ DOMAIN req.Headers = {<<"X", "-", "I", "d">>}

\* C27: when url.Parse rejects the extracted address, Parse still succeeds:
\* URL is the extracted text, BaseURL and Path are empty, Query is empty, and
\* the other fields are those of the same command with an accepted address.
C27_RejectedAddressKept ==
  /\ pc = "parsed"
  /\ OfKind(args, {"url", "referer"}) # <<>>
  /\ OfKind(args, {"url", "referer"})[1].val \in RejectedAddresses
  => /\ err = NoError
     /\ req.URL = OfKind(args, {"url", "referer"})[1].val
     /\ req.BaseURL = <<>> /\ req.Path = <<>> /\ req.Query = EmptyMap
     /\ LET i == FirstAddressArg(args)
            accepted == [args EXCEPT ![i] = Arg("url", <<>>, args[i].style, V_get)]
        IN OtherFields(req) = OtherFields(ParseResult(Render(accepted, SepSpace)).req)

C27_Witness ==
  /\ Returned
  /\ args = <<A_DataSq, A_UrlBadEscape>>
  /\ req.URL = V_badEscape
  /\ req.BaseURL = <<>>
  /\ req.Body = V_json

\* C28: in every record Method is non-empty and has no lower-case letter,
\* and a record with a non-empty Body has Method POST unless the command
\* has a -X/--request option.
C28_MethodOfBody ==
  Returned =>
    /\ req.Method # <<>>
    /\ \A i \in 1..Len(req.Method) : req.Method[i] \notin LowerChars
    /\ req.Body # <<>> /\ OfKind(args, {"method"}) = <<>> => req.Method = S_POST

C28_Witness ==
  /\ Returned
  /\ args = <<A_FormSq, A_UrlGet, A_FormBare>>
  /\ req.Body # <<>>
  /\ req.Method = S_POST

\* C29: ParsedCookies is non-empty only if RawCookie is; every entry of
\* ParsedCookies is the trimmed name and value of a segment of RawCookie that
\* has a "="; and when the command has no cookie option with a value and no
\* header named Cookie or cookie, both are empty.
C29_CookiesFromRaw ==
  Returned =>
    /\ req.ParsedCookies # EmptyMap => req.RawCookie # <<>>
    /\ \A name \in DOMAIN req.ParsedCookies :
         \E seg \in Segments(req.RawCookie) :
           /\ Index(seg, "=") # 0
           /\ TrimSpace(Before(seg, "=")) = name
           /\ TrimSpace(After(seg, "=")) = req.ParsedCookies[name]
    /\ ( /\ \A i \in 1..Len(args) : args[i].kind = "cookie" => args[i].val = <<>>
         /\ DOMAIN ExpectedHeaders(args) \cap {S_CookieName, S_cookieName} = {} )
         => req.RawCookie = <<>> /\ req.ParsedCookies = EmptyMap

C29_Witness ==
  /\ Returned
  /\ args = <<A_CookieDq, A_HCookie, A_UrlGet>>
  /\ req.RawCookie = V_ckDup
  /\ DOMAIN req.ParsedCookies = {<<"n">>}

\* C30: under every interleaving of Parse calls on one instance or on several,
\* the stored command text of every instance is never written, each call
\* returns what Parse returns run alone, and the Headers, Query and
\* ParsedCookies maps of a returned record are shared with no other record.
C30_CallsShareNothing ==
  /\ \A p \in Instances : parsers[p] = curlCommand
  /\ \A c \in Callers :
       calls[c].pc = "done" => Outcome(c) = ParseResult(curlCommand)
  /\ \A c, d \in Callers :
       calls[c].pc = "done" /\ calls[d].pc = "done" /\ c # d
       /\ calls[c].err = NoError /\ calls[d].err = NoError =>
         {calls[c].req.Headers, calls[c].req.Query, calls[c].req.ParsedCookies}
           \cap {calls[d].req.Headers, calls[d].req.Query, calls[d].req.ParsedCookies} = {}

\* two calls on the same instance: the second began after the first and
\* returned a record with headers and query parameters while the first was
\* still running
C30_Witness ==
  /\ calls[2].pc = "done"
  /\ calls[1].pc = "cookies"
  /\ calls[1].self = calls[2].self
  /\ calls[2].err = NoError
  /\ calls[1].req.Headers < calls[2].req.Headers
  /\ DOMAIN heap[calls[2].req.Headers] # {}
  /\ DOMAIN heap[calls[2].req.Query] # {}

====
